---- MODULE Spec2Model ----
(***************************************************************************)
(* State-machine model of the sliver-mcp tool handlers: the implant build  *)
(* configuration flows (generate, save-profile) and the remote execute     *)
(* flow, together with the client wrappers they call and the RPC           *)
(* collaborator seen as a nondeterministic environment.                    *)
(*                                                                         *)
(* Go strings are sequences of one-character strings, so that prefix       *)
(* tests, splitting, counting, case folding and replacement are computed   *)
(* character by character as the library functions do.                     *)
(***************************************************************************)
EXTENDS Integers, Sequences, FiniteSets, TLC

VARIABLES
    req,        \* the tool request being served: [tool, arguments]
    pc,         \* position of the handler serving it
    calls,      \* RPC calls issued so far by this request, in order
    pending,    \* handler locals that live across an RPC call
    result,     \* what the handler returned (NoResult while running)
    sessions,   \* the collaborator's session list (changes concurrently)
    changes,    \* number of concurrent session-list changes so far
    remote,     \* what a command started on the remote session comes back with
    OutputDir,  \* ImplantConfig.OutputDir, the process-wide default directory
    peer        \* a second request served at the same time (NoPeer if none):
                \* its req, pc, calls, pending and result while it is not running

vars == <<req, pc, calls, pending, result, sessions, changes, remote, OutputDir, peer>>

(***************************************************************************)
(* Go string library, on sequences of characters                           *)
(***************************************************************************)

NUL == "NUL"
CR == "\r"
LF == "\n"
TAB == "\t"
VT == "U000B"
FF == "U000C"
SP == " "

EmptyStr == <<>>

HasPrefix(s, prefix) ==
    /\ Len(s) >= Len(prefix)
    /\ SubSeq(s, 1, Len(prefix)) = prefix

TrimPrefix(s, prefix) ==
    IF HasPrefix(s, prefix) THEN SubSeq(s, Len(prefix) + 1, Len(s)) ELSE s

\* strings.Count(s, sep) for a one-character sep
Count(s, ch) == Cardinality({i \in 1..Len(s) : s[i] = ch})

\* strings.Contains(s, substr)
Contains(s, substr) ==
    \E i \in 0..(Len(s) - Len(substr)) : SubSeq(s, i + 1, i + Len(substr)) = substr

\* strings.Split(s, sep) for a one-character sep: always Count(s, sep) + 1 parts
RECURSIVE SplitFrom(_, _, _, _)
SplitFrom(s, ch, i, cur) ==
    IF i > Len(s) THEN <<cur>>
    ELSE IF s[i] = ch THEN <<cur>> \o SplitFrom(s, ch, i + 1, <<>>)
    ELSE SplitFrom(s, ch, i + 1, Append(cur, s[i]))

Split(s, ch) == SplitFrom(s, ch, 1, <<>>)

UpperLetters ==
    <<"A","B","C","D","E","F","G","H","I","J","K","L","M",
      "N","O","P","Q","R","S","T","U","V","W","X","Y","Z">>

LowerLetters ==
    <<"a","b","c","d","e","f","g","h","i","j","k","l","m",
      "n","o","p","q","r","s","t","u","v","w","x","y","z">>

\* A character outside printable ASCII is written as the letter U followed
\* by its code point in hexadecimal ("U0130" is U+0130); NUL is "NUL".
\* The lower-case mapping of unicode.ToLower for every character outside
\* ASCII that has one (Unicode simple case mapping: U+0130 gives "i", the
\* Kelvin sign U+212A gives "k").
NonASCIILower ==
    [
      U00C0 |-> "U00E0", U00C1 |-> "U00E1", U00C2 |-> "U00E2", U00C3 |-> "U00E3",
      U00C4 |-> "U00E4", U00C5 |-> "U00E5", U00C6 |-> "U00E6", U00C7 |-> "U00E7",
      U00C8 |-> "U00E8", U00C9 |-> "U00E9", U00CA |-> "U00EA", U00CB |-> "U00EB",
      U00CC |-> "U00EC", U00CD |-> "U00ED", U00CE |-> "U00EE", U00CF |-> "U00EF",
      U00D0 |-> "U00F0", U00D1 |-> "U00F1", U00D2 |-> "U00F2", U00D3 |-> "U00F3",
      U00D4 |-> "U00F4", U00D5 |-> "U00F5", U00D6 |-> "U00F6", U00D8 |-> "U00F8",
      U00D9 |-> "U00F9", U00DA |-> "U00FA", U00DB |-> "U00FB", U00DC |-> "U00FC",
      U00DD |-> "U00FD", U00DE |-> "U00FE", U0100 |-> "U0101", U0102 |-> "U0103",
      U0104 |-> "U0105", U0106 |-> "U0107", U0108 |-> "U0109", U010A |-> "U010B",
      U010C |-> "U010D", U010E |-> "U010F", U0110 |-> "U0111", U0112 |-> "U0113",
      U0114 |-> "U0115", U0116 |-> "U0117", U0118 |-> "U0119", U011A |-> "U011B",
      U011C |-> "U011D", U011E |-> "U011F", U0120 |-> "U0121", U0122 |-> "U0123",
      U0124 |-> "U0125", U0126 |-> "U0127", U0128 |-> "U0129", U012A |-> "U012B",
      U012C |-> "U012D", U012E |-> "U012F", U0130 |-> "i", U0132 |-> "U0133",
      U0134 |-> "U0135", U0136 |-> "U0137", U0139 |-> "U013A", U013B |-> "U013C",
      U013D |-> "U013E", U013F |-> "U0140", U0141 |-> "U0142", U0143 |-> "U0144",
      U0145 |-> "U0146", U0147 |-> "U0148", U014A |-> "U014B", U014C |-> "U014D",
      U014E |-> "U014F", U0150 |-> "U0151", U0152 |-> "U0153", U0154 |-> "U0155",
      U0156 |-> "U0157", U0158 |-> "U0159", U015A |-> "U015B", U015C |-> "U015D",
      U015E |-> "U015F", U0160 |-> "U0161", U0162 |-> "U0163", U0164 |-> "U0165",
      U0166 |-> "U0167", U0168 |-> "U0169", U016A |-> "U016B", U016C |-> "U016D",
      U016E |-> "U016F", U0170 |-> "U0171", U0172 |-> "U0173", U0174 |-> "U0175",
      U0176 |-> "U0177", U0178 |-> "U00FF", U0179 |-> "U017A", U017B |-> "U017C",
      U017D |-> "U017E", U0181 |-> "U0253", U0182 |-> "U0183", U0184 |-> "U0185",
      U0186 |-> "U0254", U0187 |-> "U0188", U0189 |-> "U0256", U018A |-> "U0257",
      U018B |-> "U018C", U018E |-> "U01DD", U018F |-> "U0259", U0190 |-> "U025B",
      U0191 |-> "U0192", U0193 |-> "U0260", U0194 |-> "U0263", U0196 |-> "U0269",
      U0197 |-> "U0268", U0198 |-> "U0199", U019C |-> "U026F", U019D |-> "U0272",
      U019F |-> "U0275", U01A0 |-> "U01A1", U01A2 |-> "U01A3", U01A4 |-> "U01A5",
      U01A6 |-> "U0280", U01A7 |-> "U01A8", U01A9 |-> "U0283", U01AC |-> "U01AD",
      U01AE |-> "U0288", U01AF |-> "U01B0", U01B1 |-> "U028A", U01B2 |-> "U028B",
      U01B3 |-> "U01B4", U01B5 |-> "U01B6", U01B7 |-> "U0292", U01B8 |-> "U01B9",
      U01BC |-> "U01BD", U01C4 |-> "U01C6", U01C5 |-> "U01C6", U01C7 |-> "U01C9",
      U01C8 |-> "U01C9", U01CA |-> "U01CC", U01CB |-> "U01CC", U01CD |-> "U01CE",
      U01CF |-> "U01D0", U01D1 |-> "U01D2", U01D3 |-> "U01D4", U01D5 |-> "U01D6",
      U01D7 |-> "U01D8", U01D9 |-> "U01DA", U01DB |-> "U01DC", U01DE |-> "U01DF",
      U01E0 |-> "U01E1", U01E2 |-> "U01E3", U01E4 |-> "U01E5", U01E6 |-> "U01E7",
      U01E8 |-> "U01E9", U01EA |-> "U01EB", U01EC |-> "U01ED", U01EE |-> "U01EF",
      U01F1 |-> "U01F3", U01F2 |-> "U01F3", U01F4 |-> "U01F5", U01F6 |-> "U0195",
      U01F7 |-> "U01BF", U01F8 |-> "U01F9", U01FA |-> "U01FB", U01FC |-> "U01FD",
      U01FE |-> "U01FF", U0200 |-> "U0201", U0202 |-> "U0203", U0204 |-> "U0205",
      U0206 |-> "U0207", U0208 |-> "U0209", U020A |-> "U020B", U020C |-> "U020D",
      U020E |-> "U020F", U0210 |-> "U0211", U0212 |-> "U0213", U0214 |-> "U0215",
      U0216 |-> "U0217", U0218 |-> "U0219", U021A |-> "U021B", U021C |-> "U021D",
      U021E |-> "U021F", U0220 |-> "U019E", U0222 |-> "U0223", U0224 |-> "U0225",
      U0226 |-> "U0227", U0228 |-> "U0229", U022A |-> "U022B", U022C |-> "U022D",
      U022E |-> "U022F", U0230 |-> "U0231", U0232 |-> "U0233", U023A |-> "U2C65",
      U023B |-> "U023C", U023D |-> "U019A", U023E |-> "U2C66", U0241 |-> "U0242",
      U0243 |-> "U0180", U0244 |-> "U0289", U0245 |-> "U028C", U0246 |-> "U0247",
      U0248 |-> "U0249", U024A |-> "U024B", U024C |-> "U024D", U024E |-> "U024F",
      U0370 |-> "U0371", U0372 |-> "U0373", U0376 |-> "U0377", U037F |-> "U03F3",
      U0386 |-> "U03AC", U0388 |-> "U03AD", U0389 |-> "U03AE", U038A |-> "U03AF",
      U038C |-> "U03CC", U038E |-> "U03CD", U038F |-> "U03CE", U0391 |-> "U03B1",
      U0392 |-> "U03B2", U0393 |-> "U03B3", U0394 |-> "U03B4", U0395 |-> "U03B5",
      U0396 |-> "U03B6", U0397 |-> "U03B7", U0398 |-> "U03B8", U0399 |-> "U03B9",
      U039A |-> "U03BA", U039B |-> "U03BB", U039C |-> "U03BC", U039D |-> "U03BD",
      U039E |-> "U03BE", U039F |-> "U03BF", U03A0 |-> "U03C0", U03A1 |-> "U03C1",
      U03A3 |-> "U03C3", U03A4 |-> "U03C4", U03A5 |-> "U03C5", U03A6 |-> "U03C6",
      U03A7 |-> "U03C7", U03A8 |-> "U03C8", U03A9 |-> "U03C9", U03AA |-> "U03CA",
      U03AB |-> "U03CB", U03CF |-> "U03D7", U03D8 |-> "U03D9", U03DA |-> "U03DB",
      U03DC |-> "U03DD", U03DE |-> "U03DF", U03E0 |-> "U03E1", U03E2 |-> "U03E3",
      U03E4 |-> "U03E5", U03E6 |-> "U03E7", U03E8 |-> "U03E9", U03EA |-> "U03EB",
      U03EC |-> "U03ED", U03EE |-> "U03EF", U03F4 |-> "U03B8", U03F7 |-> "U03F8",
      U03F9 |-> "U03F2", U03FA |-> "U03FB", U03FD |-> "U037B", U03FE |-> "U037C",
      U03FF |-> "U037D", U0400 |-> "U0450", U0401 |-> "U0451", U0402 |-> "U0452",
      U0403 |-> "U0453", U0404 |-> "U0454", U0405 |-> "U0455", U0406 |-> "U0456",
      U0407 |-> "U0457", U0408 |-> "U0458", U0409 |-> "U0459", U040A |-> "U045A",
      U040B |-> "U045B", U040C |-> "U045C", U040D |-> "U045D", U040E |-> "U045E",
      U040F |-> "U045F", U0410 |-> "U0430", U0411 |-> "U0431", U0412 |-> "U0432",
      U0413 |-> "U0433", U0414 |-> "U0434", U0415 |-> "U0435", U0416 |-> "U0436",
      U0417 |-> "U0437", U0418 |-> "U0438", U0419 |-> "U0439", U041A |-> "U043A",
      U041B |-> "U043B", U041C |-> "U043C", U041D |-> "U043D", U041E |-> "U043E",
      U041F |-> "U043F", U0420 |-> "U0440", U0421 |-> "U0441", U0422 |-> "U0442",
      U0423 |-> "U0443", U0424 |-> "U0444", U0425 |-> "U0445", U0426 |-> "U0446",
      U0427 |-> "U0447", U0428 |-> "U0448", U0429 |-> "U0449", U042A |-> "U044A",
      U042B |-> "U044B", U042C |-> "U044C", U042D |-> "U044D", U042E |-> "U044E",
      U042F |-> "U044F", U0460 |-> "U0461", U0462 |-> "U0463", U0464 |-> "U0465",
      U0466 |-> "U0467", U0468 |-> "U0469", U046A |-> "U046B", U046C |-> "U046D",
      U046E |-> "U046F", U0470 |-> "U0471", U0472 |-> "U0473", U0474 |-> "U0475",
      U0476 |-> "U0477", U0478 |-> "U0479", U047A |-> "U047B", U047C |-> "U047D",
      U047E |-> "U047F", U0480 |-> "U0481", U048A |-> "U048B", U048C |-> "U048D",
      U048E |-> "U048F", U0490 |-> "U0491", U0492 |-> "U0493", U0494 |-> "U0495",
      U0496 |-> "U0497", U0498 |-> "U0499", U049A |-> "U049B", U049C |-> "U049D",
      U049E |-> "U049F", U04A0 |-> "U04A1", U04A2 |-> "U04A3", U04A4 |-> "U04A5",
      U04A6 |-> "U04A7", U04A8 |-> "U04A9", U04AA |-> "U04AB", U04AC |-> "U04AD",
      U04AE |-> "U04AF", U04B0 |-> "U04B1", U04B2 |-> "U04B3", U04B4 |-> "U04B5",
      U04B6 |-> "U04B7", U04B8 |-> "U04B9", U04BA |-> "U04BB", U04BC |-> "U04BD",
      U04BE |-> "U04BF", U04C0 |-> "U04CF", U04C1 |-> "U04C2", U04C3 |-> "U04C4",
      U04C5 |-> "U04C6", U04C7 |-> "U04C8", U04C9 |-> "U04CA", U04CB |-> "U04CC",
      U04CD |-> "U04CE", U04D0 |-> "U04D1", U04D2 |-> "U04D3", U04D4 |-> "U04D5",
      U04D6 |-> "U04D7", U04D8 |-> "U04D9", U04DA |-> "U04DB", U04DC |-> "U04DD",
      U04DE |-> "U04DF", U04E0 |-> "U04E1", U04E2 |-> "U04E3", U04E4 |-> "U04E5",
      U04E6 |-> "U04E7", U04E8 |-> "U04E9", U04EA |-> "U04EB", U04EC |-> "U04ED",
      U04EE |-> "U04EF", U04F0 |-> "U04F1", U04F2 |-> "U04F3", U04F4 |-> "U04F5",
      U04F6 |-> "U04F7", U04F8 |-> "U04F9", U04FA |-> "U04FB", U04FC |-> "U04FD",
      U04FE |-> "U04FF", U0500 |-> "U0501", U0502 |-> "U0503", U0504 |-> "U0505",
      U0506 |-> "U0507", U0508 |-> "U0509", U050A |-> "U050B", U050C |-> "U050D",
      U050E |-> "U050F", U0510 |-> "U0511", U0512 |-> "U0513", U0514 |-> "U0515",
      U0516 |-> "U0517", U0518 |-> "U0519", U051A |-> "U051B", U051C |-> "U051D",
      U051E |-> "U051F", U0520 |-> "U0521", U0522 |-> "U0523", U0524 |-> "U0525",
      U0526 |-> "U0527", U0528 |-> "U0529", U052A |-> "U052B", U052C |-> "U052D",
      U052E |-> "U052F", U0531 |-> "U0561", U0532 |-> "U0562", U0533 |-> "U0563",
      U0534 |-> "U0564", U0535 |-> "U0565", U0536 |-> "U0566", U0537 |-> "U0567",
      U0538 |-> "U0568", U0539 |-> "U0569", U053A |-> "U056A", U053B |-> "U056B",
      U053C |-> "U056C", U053D |-> "U056D", U053E |-> "U056E", U053F |-> "U056F",
      U0540 |-> "U0570", U0541 |-> "U0571", U0542 |-> "U0572", U0543 |-> "U0573",
      U0544 |-> "U0574", U0545 |-> "U0575", U0546 |-> "U0576", U0547 |-> "U0577",
      U0548 |-> "U0578", U0549 |-> "U0579", U054A |-> "U057A", U054B |-> "U057B",
      U054C |-> "U057C", U054D |-> "U057D", U054E |-> "U057E", U054F |-> "U057F",
      U0550 |-> "U0580", U0551 |-> "U0581", U0552 |-> "U0582", U0553 |-> "U0583",
      U0554 |-> "U0584", U0555 |-> "U0585", U0556 |-> "U0586", U10A0 |-> "U2D00",
      U10A1 |-> "U2D01", U10A2 |-> "U2D02", U10A3 |-> "U2D03", U10A4 |-> "U2D04",
      U10A5 |-> "U2D05", U10A6 |-> "U2D06", U10A7 |-> "U2D07", U10A8 |-> "U2D08",
      U10A9 |-> "U2D09", U10AA |-> "U2D0A", U10AB |-> "U2D0B", U10AC |-> "U2D0C",
      U10AD |-> "U2D0D", U10AE |-> "U2D0E", U10AF |-> "U2D0F", U10B0 |-> "U2D10",
      U10B1 |-> "U2D11", U10B2 |-> "U2D12", U10B3 |-> "U2D13", U10B4 |-> "U2D14",
      U10B5 |-> "U2D15", U10B6 |-> "U2D16", U10B7 |-> "U2D17", U10B8 |-> "U2D18",
      U10B9 |-> "U2D19", U10BA |-> "U2D1A", U10BB |-> "U2D1B", U10BC |-> "U2D1C",
      U10BD |-> "U2D1D", U10BE |-> "U2D1E", U10BF |-> "U2D1F", U10C0 |-> "U2D20",
      U10C1 |-> "U2D21", U10C2 |-> "U2D22", U10C3 |-> "U2D23", U10C4 |-> "U2D24",
      U10C5 |-> "U2D25", U10C7 |-> "U2D27", U10CD |-> "U2D2D", U13A0 |-> "UAB70",
      U13A1 |-> "UAB71", U13A2 |-> "UAB72", U13A3 |-> "UAB73", U13A4 |-> "UAB74",
      U13A5 |-> "UAB75", U13A6 |-> "UAB76", U13A7 |-> "UAB77", U13A8 |-> "UAB78",
      U13A9 |-> "UAB79", U13AA |-> "UAB7A", U13AB |-> "UAB7B", U13AC |-> "UAB7C",
      U13AD |-> "UAB7D", U13AE |-> "UAB7E", U13AF |-> "UAB7F", U13B0 |-> "UAB80",
      U13B1 |-> "UAB81", U13B2 |-> "UAB82", U13B3 |-> "UAB83", U13B4 |-> "UAB84",
      U13B5 |-> "UAB85", U13B6 |-> "UAB86", U13B7 |-> "UAB87", U13B8 |-> "UAB88",
      U13B9 |-> "UAB89", U13BA |-> "UAB8A", U13BB |-> "UAB8B", U13BC |-> "UAB8C",
      U13BD |-> "UAB8D", U13BE |-> "UAB8E", U13BF |-> "UAB8F", U13C0 |-> "UAB90",
      U13C1 |-> "UAB91", U13C2 |-> "UAB92", U13C3 |-> "UAB93", U13C4 |-> "UAB94",
      U13C5 |-> "UAB95", U13C6 |-> "UAB96", U13C7 |-> "UAB97", U13C8 |-> "UAB98",
      U13C9 |-> "UAB99", U13CA |-> "UAB9A", U13CB |-> "UAB9B", U13CC |-> "UAB9C",
      U13CD |-> "UAB9D", U13CE |-> "UAB9E", U13CF |-> "UAB9F", U13D0 |-> "UABA0",
      U13D1 |-> "UABA1", U13D2 |-> "UABA2", U13D3 |-> "UABA3", U13D4 |-> "UABA4",
      U13D5 |-> "UABA5", U13D6 |-> "UABA6", U13D7 |-> "UABA7", U13D8 |-> "UABA8",
      U13D9 |-> "UABA9", U13DA |-> "UABAA", U13DB |-> "UABAB", U13DC |-> "UABAC",
      U13DD |-> "UABAD", U13DE |-> "UABAE", U13DF |-> "UABAF", U13E0 |-> "UABB0",
      U13E1 |-> "UABB1", U13E2 |-> "UABB2", U13E3 |-> "UABB3", U13E4 |-> "UABB4",
      U13E5 |-> "UABB5", U13E6 |-> "UABB6", U13E7 |-> "UABB7", U13E8 |-> "UABB8",
      U13E9 |-> "UABB9", U13EA |-> "UABBA", U13EB |-> "UABBB", U13EC |-> "UABBC",
      U13ED |-> "UABBD", U13EE |-> "UABBE", U13EF |-> "UABBF", U13F0 |-> "U13F8",
      U13F1 |-> "U13F9", U13F2 |-> "U13FA", U13F3 |-> "U13FB", U13F4 |-> "U13FC",
      U13F5 |-> "U13FD", U1C90 |-> "U10D0", U1C91 |-> "U10D1", U1C92 |-> "U10D2",
      U1C93 |-> "U10D3", U1C94 |-> "U10D4", U1C95 |-> "U10D5", U1C96 |-> "U10D6",
      U1C97 |-> "U10D7", U1C98 |-> "U10D8", U1C99 |-> "U10D9", U1C9A |-> "U10DA",
      U1C9B |-> "U10DB", U1C9C |-> "U10DC", U1C9D |-> "U10DD", U1C9E |-> "U10DE",
      U1C9F |-> "U10DF", U1CA0 |-> "U10E0", U1CA1 |-> "U10E1", U1CA2 |-> "U10E2",
      U1CA3 |-> "U10E3", U1CA4 |-> "U10E4", U1CA5 |-> "U10E5", U1CA6 |-> "U10E6",
      U1CA7 |-> "U10E7", U1CA8 |-> "U10E8", U1CA9 |-> "U10E9", U1CAA |-> "U10EA",
      U1CAB |-> "U10EB", U1CAC |-> "U10EC", U1CAD |-> "U10ED", U1CAE |-> "U10EE",
      U1CAF |-> "U10EF", U1CB0 |-> "U10F0", U1CB1 |-> "U10F1", U1CB2 |-> "U10F2",
      U1CB3 |-> "U10F3", U1CB4 |-> "U10F4", U1CB5 |-> "U10F5", U1CB6 |-> "U10F6",
      U1CB7 |-> "U10F7", U1CB8 |-> "U10F8", U1CB9 |-> "U10F9", U1CBA |-> "U10FA",
      U1CBD |-> "U10FD", U1CBE |-> "U10FE", U1CBF |-> "U10FF", U1E00 |-> "U1E01",
      U1E02 |-> "U1E03", U1E04 |-> "U1E05", U1E06 |-> "U1E07", U1E08 |-> "U1E09",
      U1E0A |-> "U1E0B", U1E0C |-> "U1E0D", U1E0E |-> "U1E0F", U1E10 |-> "U1E11",
      U1E12 |-> "U1E13", U1E14 |-> "U1E15", U1E16 |-> "U1E17", U1E18 |-> "U1E19",
      U1E1A |-> "U1E1B", U1E1C |-> "U1E1D", U1E1E |-> "U1E1F", U1E20 |-> "U1E21",
      U1E22 |-> "U1E23", U1E24 |-> "U1E25", U1E26 |-> "U1E27", U1E28 |-> "U1E29",
      U1E2A |-> "U1E2B", U1E2C |-> "U1E2D", U1E2E |-> "U1E2F", U1E30 |-> "U1E31",
      U1E32 |-> "U1E33", U1E34 |-> "U1E35", U1E36 |-> "U1E37", U1E38 |-> "U1E39",
      U1E3A |-> "U1E3B", U1E3C |-> "U1E3D", U1E3E |-> "U1E3F", U1E40 |-> "U1E41",
      U1E42 |-> "U1E43", U1E44 |-> "U1E45", U1E46 |-> "U1E47", U1E48 |-> "U1E49",
      U1E4A |-> "U1E4B", U1E4C |-> "U1E4D", U1E4E |-> "U1E4F", U1E50 |-> "U1E51",
      U1E52 |-> "U1E53", U1E54 |-> "U1E55", U1E56 |-> "U1E57", U1E58 |-> "U1E59",
      U1E5A |-> "U1E5B", U1E5C |-> "U1E5D", U1E5E |-> "U1E5F", U1E60 |-> "U1E61",
      U1E62 |-> "U1E63", U1E64 |-> "U1E65", U1E66 |-> "U1E67", U1E68 |-> "U1E69",
      U1E6A |-> "U1E6B", U1E6C |-> "U1E6D", U1E6E |-> "U1E6F", U1E70 |-> "U1E71",
      U1E72 |-> "U1E73", U1E74 |-> "U1E75", U1E76 |-> "U1E77", U1E78 |-> "U1E79",
      U1E7A |-> "U1E7B", U1E7C |-> "U1E7D", U1E7E |-> "U1E7F", U1E80 |-> "U1E81",
      U1E82 |-> "U1E83", U1E84 |-> "U1E85", U1E86 |-> "U1E87", U1E88 |-> "U1E89",
      U1E8A |-> "U1E8B", U1E8C |-> "U1E8D", U1E8E |-> "U1E8F", U1E90 |-> "U1E91",
      U1E92 |-> "U1E93", U1E94 |-> "U1E95", U1E9E |-> "U00DF", U1EA0 |-> "U1EA1",
      U1EA2 |-> "U1EA3", U1EA4 |-> "U1EA5", U1EA6 |-> "U1EA7", U1EA8 |-> "U1EA9",
      U1EAA |-> "U1EAB", U1EAC |-> "U1EAD", U1EAE |-> "U1EAF", U1EB0 |-> "U1EB1",
      U1EB2 |-> "U1EB3", U1EB4 |-> "U1EB5", U1EB6 |-> "U1EB7", U1EB8 |-> "U1EB9",
      U1EBA |-> "U1EBB", U1EBC |-> "U1EBD", U1EBE |-> "U1EBF", U1EC0 |-> "U1EC1",
      U1EC2 |-> "U1EC3", U1EC4 |-> "U1EC5", U1EC6 |-> "U1EC7", U1EC8 |-> "U1EC9",
      U1ECA |-> "U1ECB", U1ECC |-> "U1ECD", U1ECE |-> "U1ECF", U1ED0 |-> "U1ED1",
      U1ED2 |-> "U1ED3", U1ED4 |-> "U1ED5", U1ED6 |-> "U1ED7", U1ED8 |-> "U1ED9",
      U1EDA |-> "U1EDB", U1EDC |-> "U1EDD", U1EDE |-> "U1EDF", U1EE0 |-> "U1EE1",
      U1EE2 |-> "U1EE3", U1EE4 |-> "U1EE5", U1EE6 |-> "U1EE7", U1EE8 |-> "U1EE9",
      U1EEA |-> "U1EEB", U1EEC |-> "U1EED", U1EEE |-> "U1EEF", U1EF0 |-> "U1EF1",
      U1EF2 |-> "U1EF3", U1EF4 |-> "U1EF5", U1EF6 |-> "U1EF7", U1EF8 |-> "U1EF9",
      U1EFA |-> "U1EFB", U1EFC |-> "U1EFD", U1EFE |-> "U1EFF", U1F08 |-> "U1F00",
      U1F09 |-> "U1F01", U1F0A |-> "U1F02", U1F0B |-> "U1F03", U1F0C |-> "U1F04",
      U1F0D |-> "U1F05", U1F0E |-> "U1F06", U1F0F |-> "U1F07", U1F18 |-> "U1F10",
      U1F19 |-> "U1F11", U1F1A |-> "U1F12", U1F1B |-> "U1F13", U1F1C |-> "U1F14",
      U1F1D |-> "U1F15", U1F28 |-> "U1F20", U1F29 |-> "U1F21", U1F2A |-> "U1F22",
      U1F2B |-> "U1F23", U1F2C |-> "U1F24", U1F2D |-> "U1F25", U1F2E |-> "U1F26",
      U1F2F |-> "U1F27", U1F38 |-> "U1F30", U1F39 |-> "U1F31", U1F3A |-> "U1F32",
      U1F3B |-> "U1F33", U1F3C |-> "U1F34", U1F3D |-> "U1F35", U1F3E |-> "U1F36",
      U1F3F |-> "U1F37", U1F48 |-> "U1F40", U1F49 |-> "U1F41", U1F4A |-> "U1F42",
      U1F4B |-> "U1F43", U1F4C |-> "U1F44", U1F4D |-> "U1F45", U1F59 |-> "U1F51",
      U1F5B |-> "U1F53", U1F5D |-> "U1F55", U1F5F |-> "U1F57", U1F68 |-> "U1F60",
      U1F69 |-> "U1F61", U1F6A |-> "U1F62", U1F6B |-> "U1F63", U1F6C |-> "U1F64",
      U1F6D |-> "U1F65", U1F6E |-> "U1F66", U1F6F |-> "U1F67", U1F88 |-> "U1F80",
      U1F89 |-> "U1F81", U1F8A |-> "U1F82", U1F8B |-> "U1F83", U1F8C |-> "U1F84",
      U1F8D |-> "U1F85", U1F8E |-> "U1F86", U1F8F |-> "U1F87", U1F98 |-> "U1F90",
      U1F99 |-> "U1F91", U1F9A |-> "U1F92", U1F9B |-> "U1F93", U1F9C |-> "U1F94",
      U1F9D |-> "U1F95", U1F9E |-> "U1F96", U1F9F |-> "U1F97", U1FA8 |-> "U1FA0",
      U1FA9 |-> "U1FA1", U1FAA |-> "U1FA2", U1FAB |-> "U1FA3", U1FAC |-> "U1FA4",
      U1FAD |-> "U1FA5", U1FAE |-> "U1FA6", U1FAF |-> "U1FA7", U1FB8 |-> "U1FB0",
      U1FB9 |-> "U1FB1", U1FBA |-> "U1F70", U1FBB |-> "U1F71", U1FBC |-> "U1FB3",
      U1FC8 |-> "U1F72", U1FC9 |-> "U1F73", U1FCA |-> "U1F74", U1FCB |-> "U1F75",
      U1FCC |-> "U1FC3", U1FD8 |-> "U1FD0", U1FD9 |-> "U1FD1", U1FDA |-> "U1F76",
      U1FDB |-> "U1F77", U1FE8 |-> "U1FE0", U1FE9 |-> "U1FE1", U1FEA |-> "U1F7A",
      U1FEB |-> "U1F7B", U1FEC |-> "U1FE5", U1FF8 |-> "U1F78", U1FF9 |-> "U1F79",
      U1FFA |-> "U1F7C", U1FFB |-> "U1F7D", U1FFC |-> "U1FF3", U2126 |-> "U03C9",
      U212A |-> "k", U212B |-> "U00E5", U2132 |-> "U214E", U2160 |-> "U2170",
      U2161 |-> "U2171", U2162 |-> "U2172", U2163 |-> "U2173", U2164 |-> "U2174",
      U2165 |-> "U2175", U2166 |-> "U2176", U2167 |-> "U2177", U2168 |-> "U2178",
      U2169 |-> "U2179", U216A |-> "U217A", U216B |-> "U217B", U216C |-> "U217C",
      U216D |-> "U217D", U216E |-> "U217E", U216F |-> "U217F", U2183 |-> "U2184",
      U24B6 |-> "U24D0", U24B7 |-> "U24D1", U24B8 |-> "U24D2", U24B9 |-> "U24D3",
      U24BA |-> "U24D4", U24BB |-> "U24D5", U24BC |-> "U24D6", U24BD |-> "U24D7",
      U24BE |-> "U24D8", U24BF |-> "U24D9", U24C0 |-> "U24DA", U24C1 |-> "U24DB",
      U24C2 |-> "U24DC", U24C3 |-> "U24DD", U24C4 |-> "U24DE", U24C5 |-> "U24DF",
      U24C6 |-> "U24E0", U24C7 |-> "U24E1", U24C8 |-> "U24E2", U24C9 |-> "U24E3",
      U24CA |-> "U24E4", U24CB |-> "U24E5", U24CC |-> "U24E6", U24CD |-> "U24E7",
      U24CE |-> "U24E8", U24CF |-> "U24E9", U2C00 |-> "U2C30", U2C01 |-> "U2C31",
      U2C02 |-> "U2C32", U2C03 |-> "U2C33", U2C04 |-> "U2C34", U2C05 |-> "U2C35",
      U2C06 |-> "U2C36", U2C07 |-> "U2C37", U2C08 |-> "U2C38", U2C09 |-> "U2C39",
      U2C0A |-> "U2C3A", U2C0B |-> "U2C3B", U2C0C |-> "U2C3C", U2C0D |-> "U2C3D",
      U2C0E |-> "U2C3E", U2C0F |-> "U2C3F", U2C10 |-> "U2C40", U2C11 |-> "U2C41",
      U2C12 |-> "U2C42", U2C13 |-> "U2C43", U2C14 |-> "U2C44", U2C15 |-> "U2C45",
      U2C16 |-> "U2C46", U2C17 |-> "U2C47", U2C18 |-> "U2C48", U2C19 |-> "U2C49",
      U2C1A |-> "U2C4A", U2C1B |-> "U2C4B", U2C1C |-> "U2C4C", U2C1D |-> "U2C4D",
      U2C1E |-> "U2C4E", U2C1F |-> "U2C4F", U2C20 |-> "U2C50", U2C21 |-> "U2C51",
      U2C22 |-> "U2C52", U2C23 |-> "U2C53", U2C24 |-> "U2C54", U2C25 |-> "U2C55",
      U2C26 |-> "U2C56", U2C27 |-> "U2C57", U2C28 |-> "U2C58", U2C29 |-> "U2C59",
      U2C2A |-> "U2C5A", U2C2B |-> "U2C5B", U2C2C |-> "U2C5C", U2C2D |-> "U2C5D",
      U2C2E |-> "U2C5E", U2C2F |-> "U2C5F", U2C60 |-> "U2C61", U2C62 |-> "U026B",
      U2C63 |-> "U1D7D", U2C64 |-> "U027D", U2C67 |-> "U2C68", U2C69 |-> "U2C6A",
      U2C6B |-> "U2C6C", U2C6D |-> "U0251", U2C6E |-> "U0271", U2C6F |-> "U0250",
      U2C70 |-> "U0252", U2C72 |-> "U2C73", U2C75 |-> "U2C76", U2C7E |-> "U023F",
      U2C7F |-> "U0240", U2C80 |-> "U2C81", U2C82 |-> "U2C83", U2C84 |-> "U2C85",
      U2C86 |-> "U2C87", U2C88 |-> "U2C89", U2C8A |-> "U2C8B", U2C8C |-> "U2C8D",
      U2C8E |-> "U2C8F", U2C90 |-> "U2C91", U2C92 |-> "U2C93", U2C94 |-> "U2C95",
      U2C96 |-> "U2C97", U2C98 |-> "U2C99", U2C9A |-> "U2C9B", U2C9C |-> "U2C9D",
      U2C9E |-> "U2C9F", U2CA0 |-> "U2CA1", U2CA2 |-> "U2CA3", U2CA4 |-> "U2CA5",
      U2CA6 |-> "U2CA7", U2CA8 |-> "U2CA9", U2CAA |-> "U2CAB", U2CAC |-> "U2CAD",
      U2CAE |-> "U2CAF", U2CB0 |-> "U2CB1", U2CB2 |-> "U2CB3", U2CB4 |-> "U2CB5",
      U2CB6 |-> "U2CB7", U2CB8 |-> "U2CB9", U2CBA |-> "U2CBB", U2CBC |-> "U2CBD",
      U2CBE |-> "U2CBF", U2CC0 |-> "U2CC1", U2CC2 |-> "U2CC3", U2CC4 |-> "U2CC5",
      U2CC6 |-> "U2CC7", U2CC8 |-> "U2CC9", U2CCA |-> "U2CCB", U2CCC |-> "U2CCD",
      U2CCE |-> "U2CCF", U2CD0 |-> "U2CD1", U2CD2 |-> "U2CD3", U2CD4 |-> "U2CD5",
      U2CD6 |-> "U2CD7", U2CD8 |-> "U2CD9", U2CDA |-> "U2CDB", U2CDC |-> "U2CDD",
      U2CDE |-> "U2CDF", U2CE0 |-> "U2CE1", U2CE2 |-> "U2CE3", U2CEB |-> "U2CEC",
      U2CED |-> "U2CEE", U2CF2 |-> "U2CF3", UA640 |-> "UA641", UA642 |-> "UA643",
      UA644 |-> "UA645", UA646 |-> "UA647", UA648 |-> "UA649", UA64A |-> "UA64B",
      UA64C |-> "UA64D", UA64E |-> "UA64F", UA650 |-> "UA651", UA652 |-> "UA653",
      UA654 |-> "UA655", UA656 |-> "UA657", UA658 |-> "UA659", UA65A |-> "UA65B",
      UA65C |-> "UA65D", UA65E |-> "UA65F", UA660 |-> "UA661", UA662 |-> "UA663",
      UA664 |-> "UA665", UA666 |-> "UA667", UA668 |-> "UA669", UA66A |-> "UA66B",
      UA66C |-> "UA66D", UA680 |-> "UA681", UA682 |-> "UA683", UA684 |-> "UA685",
      UA686 |-> "UA687", UA688 |-> "UA689", UA68A |-> "UA68B", UA68C |-> "UA68D",
      UA68E |-> "UA68F", UA690 |-> "UA691", UA692 |-> "UA693", UA694 |-> "UA695",
      UA696 |-> "UA697", UA698 |-> "UA699", UA69A |-> "UA69B", UA722 |-> "UA723",
      UA724 |-> "UA725", UA726 |-> "UA727", UA728 |-> "UA729", UA72A |-> "UA72B",
      UA72C |-> "UA72D", UA72E |-> "UA72F", UA732 |-> "UA733", UA734 |-> "UA735",
      UA736 |-> "UA737", UA738 |-> "UA739", UA73A |-> "UA73B", UA73C |-> "UA73D",
      UA73E |-> "UA73F", UA740 |-> "UA741", UA742 |-> "UA743", UA744 |-> "UA745",
      UA746 |-> "UA747", UA748 |-> "UA749", UA74A |-> "UA74B", UA74C |-> "UA74D",
      UA74E |-> "UA74F", UA750 |-> "UA751", UA752 |-> "UA753", UA754 |-> "UA755",
      UA756 |-> "UA757", UA758 |-> "UA759", UA75A |-> "UA75B", UA75C |-> "UA75D",
      UA75E |-> "UA75F", UA760 |-> "UA761", UA762 |-> "UA763", UA764 |-> "UA765",
      UA766 |-> "UA767", UA768 |-> "UA769", UA76A |-> "UA76B", UA76C |-> "UA76D",
      UA76E |-> "UA76F", UA779 |-> "UA77A", UA77B |-> "UA77C", UA77D |-> "U1D79",
      UA77E |-> "UA77F", UA780 |-> "UA781", UA782 |-> "UA783", UA784 |-> "UA785",
      UA786 |-> "UA787", UA78B |-> "UA78C", UA78D |-> "U0265", UA790 |-> "UA791",
      UA792 |-> "UA793", UA796 |-> "UA797", UA798 |-> "UA799", UA79A |-> "UA79B",
      UA79C |-> "UA79D", UA79E |-> "UA79F", UA7A0 |-> "UA7A1", UA7A2 |-> "UA7A3",
      UA7A4 |-> "UA7A5", UA7A6 |-> "UA7A7", UA7A8 |-> "UA7A9", UA7AA |-> "U0266",
      UA7AB |-> "U025C", UA7AC |-> "U0261", UA7AD |-> "U026C", UA7AE |-> "U026A",
      UA7B0 |-> "U029E", UA7B1 |-> "U0287", UA7B2 |-> "U029D", UA7B3 |-> "UAB53",
      UA7B4 |-> "UA7B5", UA7B6 |-> "UA7B7", UA7B8 |-> "UA7B9", UA7BA |-> "UA7BB",
      UA7BC |-> "UA7BD", UA7BE |-> "UA7BF", UA7C0 |-> "UA7C1", UA7C2 |-> "UA7C3",
      UA7C4 |-> "UA794", UA7C5 |-> "U0282", UA7C6 |-> "U1D8E", UA7C7 |-> "UA7C8",
      UA7C9 |-> "UA7CA", UA7D0 |-> "UA7D1", UA7D6 |-> "UA7D7", UA7D8 |-> "UA7D9",
      UA7F5 |-> "UA7F6", UFF21 |-> "UFF41", UFF22 |-> "UFF42", UFF23 |-> "UFF43",
      UFF24 |-> "UFF44", UFF25 |-> "UFF45", UFF26 |-> "UFF46", UFF27 |-> "UFF47",
      UFF28 |-> "UFF48", UFF29 |-> "UFF49", UFF2A |-> "UFF4A", UFF2B |-> "UFF4B",
      UFF2C |-> "UFF4C", UFF2D |-> "UFF4D", UFF2E |-> "UFF4E", UFF2F |-> "UFF4F",
      UFF30 |-> "UFF50", UFF31 |-> "UFF51", UFF32 |-> "UFF52", UFF33 |-> "UFF53",
      UFF34 |-> "UFF54", UFF35 |-> "UFF55", UFF36 |-> "UFF56", UFF37 |-> "UFF57",
      UFF38 |-> "UFF58", UFF39 |-> "UFF59", UFF3A |-> "UFF5A", U10400 |-> "U10428",
      U10401 |-> "U10429", U10402 |-> "U1042A", U10403 |-> "U1042B", U10404 |-> "U1042C",
      U10405 |-> "U1042D", U10406 |-> "U1042E", U10407 |-> "U1042F", U10408 |-> "U10430",
      U10409 |-> "U10431", U1040A |-> "U10432", U1040B |-> "U10433", U1040C |-> "U10434",
      U1040D |-> "U10435", U1040E |-> "U10436", U1040F |-> "U10437", U10410 |-> "U10438",
      U10411 |-> "U10439", U10412 |-> "U1043A", U10413 |-> "U1043B", U10414 |-> "U1043C",
      U10415 |-> "U1043D", U10416 |-> "U1043E", U10417 |-> "U1043F", U10418 |-> "U10440",
      U10419 |-> "U10441", U1041A |-> "U10442", U1041B |-> "U10443", U1041C |-> "U10444",
      U1041D |-> "U10445", U1041E |-> "U10446", U1041F |-> "U10447", U10420 |-> "U10448",
      U10421 |-> "U10449", U10422 |-> "U1044A", U10423 |-> "U1044B", U10424 |-> "U1044C",
      U10425 |-> "U1044D", U10426 |-> "U1044E", U10427 |-> "U1044F", U104B0 |-> "U104D8",
      U104B1 |-> "U104D9", U104B2 |-> "U104DA", U104B3 |-> "U104DB", U104B4 |-> "U104DC",
      U104B5 |-> "U104DD", U104B6 |-> "U104DE", U104B7 |-> "U104DF", U104B8 |-> "U104E0",
      U104B9 |-> "U104E1", U104BA |-> "U104E2", U104BB |-> "U104E3", U104BC |-> "U104E4",
      U104BD |-> "U104E5", U104BE |-> "U104E6", U104BF |-> "U104E7", U104C0 |-> "U104E8",
      U104C1 |-> "U104E9", U104C2 |-> "U104EA", U104C3 |-> "U104EB", U104C4 |-> "U104EC",
      U104C5 |-> "U104ED", U104C6 |-> "U104EE", U104C7 |-> "U104EF", U104C8 |-> "U104F0",
      U104C9 |-> "U104F1", U104CA |-> "U104F2", U104CB |-> "U104F3", U104CC |-> "U104F4",
      U104CD |-> "U104F5", U104CE |-> "U104F6", U104CF |-> "U104F7", U104D0 |-> "U104F8",
      U104D1 |-> "U104F9", U104D2 |-> "U104FA", U104D3 |-> "U104FB", U10570 |-> "U10597",
      U10571 |-> "U10598", U10572 |-> "U10599", U10573 |-> "U1059A", U10574 |-> "U1059B",
      U10575 |-> "U1059C", U10576 |-> "U1059D", U10577 |-> "U1059E", U10578 |-> "U1059F",
      U10579 |-> "U105A0", U1057A |-> "U105A1", U1057C |-> "U105A3", U1057D |-> "U105A4",
      U1057E |-> "U105A5", U1057F |-> "U105A6", U10580 |-> "U105A7", U10581 |-> "U105A8",
      U10582 |-> "U105A9", U10583 |-> "U105AA", U10584 |-> "U105AB", U10585 |-> "U105AC",
      U10586 |-> "U105AD", U10587 |-> "U105AE", U10588 |-> "U105AF", U10589 |-> "U105B0",
      U1058A |-> "U105B1", U1058C |-> "U105B3", U1058D |-> "U105B4", U1058E |-> "U105B5",
      U1058F |-> "U105B6", U10590 |-> "U105B7", U10591 |-> "U105B8", U10592 |-> "U105B9",
      U10594 |-> "U105BB", U10595 |-> "U105BC", U10C80 |-> "U10CC0", U10C81 |-> "U10CC1",
      U10C82 |-> "U10CC2", U10C83 |-> "U10CC3", U10C84 |-> "U10CC4", U10C85 |-> "U10CC5",
      U10C86 |-> "U10CC6", U10C87 |-> "U10CC7", U10C88 |-> "U10CC8", U10C89 |-> "U10CC9",
      U10C8A |-> "U10CCA", U10C8B |-> "U10CCB", U10C8C |-> "U10CCC", U10C8D |-> "U10CCD",
      U10C8E |-> "U10CCE", U10C8F |-> "U10CCF", U10C90 |-> "U10CD0", U10C91 |-> "U10CD1",
      U10C92 |-> "U10CD2", U10C93 |-> "U10CD3", U10C94 |-> "U10CD4", U10C95 |-> "U10CD5",
      U10C96 |-> "U10CD6", U10C97 |-> "U10CD7", U10C98 |-> "U10CD8", U10C99 |-> "U10CD9",
      U10C9A |-> "U10CDA", U10C9B |-> "U10CDB", U10C9C |-> "U10CDC", U10C9D |-> "U10CDD",
      U10C9E |-> "U10CDE", U10C9F |-> "U10CDF", U10CA0 |-> "U10CE0", U10CA1 |-> "U10CE1",
      U10CA2 |-> "U10CE2", U10CA3 |-> "U10CE3", U10CA4 |-> "U10CE4", U10CA5 |-> "U10CE5",
      U10CA6 |-> "U10CE6", U10CA7 |-> "U10CE7", U10CA8 |-> "U10CE8", U10CA9 |-> "U10CE9",
      U10CAA |-> "U10CEA", U10CAB |-> "U10CEB", U10CAC |-> "U10CEC", U10CAD |-> "U10CED",
      U10CAE |-> "U10CEE", U10CAF |-> "U10CEF", U10CB0 |-> "U10CF0", U10CB1 |-> "U10CF1",
      U10CB2 |-> "U10CF2", U118A0 |-> "U118C0", U118A1 |-> "U118C1", U118A2 |-> "U118C2",
      U118A3 |-> "U118C3", U118A4 |-> "U118C4", U118A5 |-> "U118C5", U118A6 |-> "U118C6",
      U118A7 |-> "U118C7", U118A8 |-> "U118C8", U118A9 |-> "U118C9", U118AA |-> "U118CA",
      U118AB |-> "U118CB", U118AC |-> "U118CC", U118AD |-> "U118CD", U118AE |-> "U118CE",
      U118AF |-> "U118CF", U118B0 |-> "U118D0", U118B1 |-> "U118D1", U118B2 |-> "U118D2",
      U118B3 |-> "U118D3", U118B4 |-> "U118D4", U118B5 |-> "U118D5", U118B6 |-> "U118D6",
      U118B7 |-> "U118D7", U118B8 |-> "U118D8", U118B9 |-> "U118D9", U118BA |-> "U118DA",
      U118BB |-> "U118DB", U118BC |-> "U118DC", U118BD |-> "U118DD", U118BE |-> "U118DE",
      U118BF |-> "U118DF", U16E40 |-> "U16E60", U16E41 |-> "U16E61", U16E42 |-> "U16E62",
      U16E43 |-> "U16E63", U16E44 |-> "U16E64", U16E45 |-> "U16E65", U16E46 |-> "U16E66",
      U16E47 |-> "U16E67", U16E48 |-> "U16E68", U16E49 |-> "U16E69", U16E4A |-> "U16E6A",
      U16E4B |-> "U16E6B", U16E4C |-> "U16E6C", U16E4D |-> "U16E6D", U16E4E |-> "U16E6E",
      U16E4F |-> "U16E6F", U16E50 |-> "U16E70", U16E51 |-> "U16E71", U16E52 |-> "U16E72",
      U16E53 |-> "U16E73", U16E54 |-> "U16E74", U16E55 |-> "U16E75", U16E56 |-> "U16E76",
      U16E57 |-> "U16E77", U16E58 |-> "U16E78", U16E59 |-> "U16E79", U16E5A |-> "U16E7A",
      U16E5B |-> "U16E7B", U16E5C |-> "U16E7C", U16E5D |-> "U16E7D", U16E5E |-> "U16E7E",
      U16E5F |-> "U16E7F", U1E900 |-> "U1E922", U1E901 |-> "U1E923", U1E902 |-> "U1E924",
      U1E903 |-> "U1E925", U1E904 |-> "U1E926", U1E905 |-> "U1E927", U1E906 |-> "U1E928",
      U1E907 |-> "U1E929", U1E908 |-> "U1E92A", U1E909 |-> "U1E92B", U1E90A |-> "U1E92C",
      U1E90B |-> "U1E92D", U1E90C |-> "U1E92E", U1E90D |-> "U1E92F", U1E90E |-> "U1E930",
      U1E90F |-> "U1E931", U1E910 |-> "U1E932", U1E911 |-> "U1E933", U1E912 |-> "U1E934",
      U1E913 |-> "U1E935", U1E914 |-> "U1E936", U1E915 |-> "U1E937", U1E916 |-> "U1E938",
      U1E917 |-> "U1E939", U1E918 |-> "U1E93A", U1E919 |-> "U1E93B", U1E91A |-> "U1E93C",
      U1E91B |-> "U1E93D", U1E91C |-> "U1E93E", U1E91D |-> "U1E93F", U1E91E |-> "U1E940",
      U1E91F |-> "U1E941", U1E920 |-> "U1E942", U1E921 |-> "U1E943"
    ]

\* unicode.ToLower
ToLowerChar(c) ==
    IF \E i \in 1..Len(UpperLetters) : UpperLetters[i] = c
    THEN LowerLetters[CHOOSE i \in 1..Len(UpperLetters) : UpperLetters[i] = c]
    ELSE IF c \in DOMAIN NonASCIILower
    THEN NonASCIILower[c]
    ELSE c

ToLower(s) == [i \in 1..Len(s) |-> ToLowerChar(s[i])]

\* strings.ReplaceAll(s, old, new) for a non-empty old: leftmost,
\* non-overlapping occurrences
RECURSIVE ReplaceAll(_, _, _)
ReplaceAll(s, old, new) ==
    IF Len(s) < Len(old) THEN s
    ELSE IF HasPrefix(s, old)
         THEN new \o ReplaceAll(SubSeq(s, Len(old) + 1, Len(s)), old, new)
         ELSE <<s[1]>> \o ReplaceAll(Tail(s), old, new)

\* unicode.IsSpace: tab, line feed, vertical tab, form feed, carriage return,
\* space, U+0085, U+00A0 and the other characters with the White_Space
\* property
IsSpace(c) ==
    c \in {TAB, LF, VT, FF, CR, SP, "U0085", "U00A0", "U1680",
           "U2000", "U2001", "U2002", "U2003", "U2004", "U2005", "U2006", "U2007",
           "U2008", "U2009", "U200A", "U2028", "U2029", "U202F", "U205F", "U3000"}

RECURSIVE TrimLeftSpace(_)
TrimLeftSpace(s) ==
    IF s # <<>> /\ IsSpace(Head(s)) THEN TrimLeftSpace(Tail(s)) ELSE s

RECURSIVE TrimRightSpace(_)
TrimRightSpace(s) ==
    IF s # <<>> /\ IsSpace(s[Len(s)])
    THEN TrimRightSpace(SubSeq(s, 1, Len(s) - 1))
    ELSE s

TrimSpace(s) == TrimRightSpace(TrimLeftSpace(s))

(***************************************************************************)
(* JSON values of a request's arguments (map[string]interface{})           *)
(***************************************************************************)

Absent == [t |-> "absent"]              \* the key is not in the map
Num == [t |-> "num"]                    \* a value that is no string, list or map
Str(s) == [t |-> "str", s |-> s]
Bool(b) == [t |-> "bool", b |-> b]
Lst(l) == [t |-> "list", l |-> l]
Obj(url) == [t |-> "obj", url |-> url]  \* a map element of a c2 list, with its url entry

IsStr(v) == v.t = "str"
IsLst(v) == v.t = "list"

(***************************************************************************)
(* String literals of the handlers                                         *)
(***************************************************************************)

Windows == <<"w","i","n","d","o","w","s">>
Linux == <<"l","i","n","u","x">>
Darwin == <<"d","a","r","w","i","n">>
Amd64 == <<"a","m","d","6","4">>
I386 == <<"3","8","6">>
Arm64 == <<"a","r","m","6","4">>

MtlsPrefix == <<"m","t","l","s",":","/","/">>
HttpPrefix == <<"h","t","t","p",":","/","/">>
HttpsPrefix == <<"h","t","t","p","s",":","/","/">>

DefaultImplantName == <<"g","e","n","e","r","a","t","e","d","-","i","m","p","l","a","n","t">>

(***************************************************************************)
(* HandleGenerateImplant: platform (OS and architecture)                   *)
(***************************************************************************)

\* the switch on implantConfig.GOOS
StandardizeOS(goos) ==
    CASE goos \in {<<"m","a","c">>, <<"m","a","c","o","s">>, <<"o","s","x">>} -> Darwin
      [] goos = <<"w","i","n">> -> Windows
      [] goos = <<"l","i","n">> -> Linux
      [] OTHER -> goos

\* mutant: aarch64 is not an alias
StandardizeArch_NoAarch64(goarch) ==
    CASE goarch \in {<<"x","6","4">>, <<"x","8","6","_","6","4">>, Amd64,
                     <<"6","4">>, <<"6","4","b","i","t">>} -> Amd64
      [] goarch \in {<<"x","8","6">>, <<"i","3","8","6">>, I386,
                     <<"3","2">>, <<"3","2","b","i","t">>} -> I386
      [] OTHER -> goarch

\* the switch on the lower-cased architecture
StandardizeArch(goarch) ==
    CASE goarch \in {<<"x","6","4">>, <<"x","8","6","_","6","4">>, Amd64,
                     <<"6","4">>, <<"6","4","b","i","t">>} -> Amd64
      [] goarch \in {<<"x","8","6">>, <<"i","3","8","6">>, I386,
                     <<"3","2">>, <<"3","2","b","i","t">>} -> I386
      [] goarch \in {Arm64, <<"a","a","r","c","h","6","4">>} -> Arm64
      [] OTHER -> goarch

\* implantConfig.GOOS after the key lookup ("OS" before "os"), the alias
\* switch and the default
GenerateGOOS(configMap) ==
    LET raw == IF IsStr(configMap.OS) THEN ToLower(configMap.OS.s)
               ELSE IF IsStr(configMap.os) THEN ToLower(configMap.os.s)
               ELSE EmptyStr
        std == StandardizeOS(raw)
    IN IF std = EmptyStr THEN Windows ELSE std

\* implantConfig.GOARCH after the alias switch and the default
GenerateGOARCH(configMap) ==
    LET std == IF IsStr(configMap.arch)
               THEN StandardizeArch(ToLower(configMap.arch.s))
               ELSE EmptyStr
    IN IF std = EmptyStr THEN Amd64 ELSE std

\* fmt.Sprintf("%s/%s", GOOS, GOARCH)
PlatformString(goos, goarch) == goos \o <<"/">> \o goarch

\* mutant: every pairing of a known OS with a known architecture is taken
\* as supported
supportedPlatforms_AllPairs ==
    {PlatformString(o, a) : o \in {Windows, Linux, Darwin}, a \in {Amd64, I386, Arm64}}

supportedPlatforms ==
    { PlatformString(Windows, Amd64), PlatformString(Windows, I386),
      PlatformString(Linux, Amd64), PlatformString(Linux, I386),
      PlatformString(Darwin, Amd64), PlatformString(Darwin, Arm64) }

\* the platform check of the handler: TRUE when the request passes it
PlatformSupported(goos, goarch) ==
    PlatformString(goos, goarch) \in supportedPlatforms

(***************************************************************************)
(* HandleGenerateImplant: C2 endpoint resolution                           *)
(***************************************************************************)

ImplantC2(priority, url) == [Priority |-> priority, URL |-> url]

\* mutant: the priority is the position among the endpoints made so far
RECURSIVE C2ListEndpoints_Renumbered(_, _)
C2ListEndpoints_Renumbered(l, i) ==
    IF i > Len(l) THEN <<>>
    ELSE (IF l[i].t = "obj"
          THEN <<ImplantC2(Cardinality({j \in 1..(i - 1) : l[j].t = "obj"}),
                           IF IsStr(l[i].url) THEN l[i].url.s ELSE EmptyStr)>>
          ELSE <<>>)
         \o C2ListEndpoints_Renumbered(l, i + 1)

\* the loop over a c2 list: one endpoint per map element, URL left empty
\* when the element has no string url
RECURSIVE C2ListEndpoints(_, _)
C2ListEndpoints(l, i) ==
    IF i > Len(l) THEN <<>>
    ELSE (IF l[i].t = "obj"
          THEN <<ImplantC2(i - 1, IF IsStr(l[i].url) THEN l[i].url.s ELSE EmptyStr)>>
          ELSE <<>>)
         \o C2ListEndpoints(l, i + 1)

\* mutant: the prefix is added without looking at the element
RECURSIVE ServerListEndpoints_AlwaysPrefix(_, _, _)
ServerListEndpoints_AlwaysPrefix(l, prefix, i) ==
    IF i > Len(l) THEN <<>>
    ELSE (IF IsStr(l[i]) THEN <<ImplantC2(i - 1, prefix \o l[i].s)>> ELSE <<>>)
         \o ServerListEndpoints_AlwaysPrefix(l, prefix, i + 1)

\* the loop over an mtlsc2 / httpc2 / httpsc2 list: one endpoint per string
\* element, prefixed when the prefix is not already there
RECURSIVE ServerListEndpoints(_, _, _)
ServerListEndpoints(l, prefix, i) ==
    IF i > Len(l) THEN <<>>
    ELSE (IF IsStr(l[i])
          THEN <<ImplantC2(i - 1, IF HasPrefix(l[i].s, prefix)
                                  THEN l[i].s ELSE prefix \o l[i].s)>>
          ELSE <<>>)
         \o ServerListEndpoints(l, prefix, i + 1)

\* mutant: the mtlsc2 branch is tested before the c2 list branch
C2Shape_MtlsFirst(configMap) ==
    IF IsLst(configMap.mtlsc2) THEN "mtlsc2"
    ELSE IF IsLst(configMap.c2) /\ Len(configMap.c2.l) > 0 THEN "c2list"
    ELSE IF IsLst(configMap.httpc2) /\ Len(configMap.httpc2.l) > 0 THEN "httpc2"
    ELSE IF IsLst(configMap.httpsc2) /\ Len(configMap.httpsc2.l) > 0 THEN "httpsc2"
    ELSE IF IsStr(configMap.c2) /\ configMap.c2.s # EmptyStr THEN "c2string"
    ELSE "none"

\* mutant: the httpc2 branch is taken for an empty list too
C2Shape_HttpAnyList(configMap) ==
    IF IsLst(configMap.c2) /\ Len(configMap.c2.l) > 0 THEN "c2list"
    ELSE IF IsLst(configMap.mtlsc2) THEN "mtlsc2"
    ELSE IF IsLst(configMap.httpc2) THEN "httpc2"
    ELSE IF IsLst(configMap.httpsc2) /\ Len(configMap.httpsc2.l) > 0 THEN "httpsc2"
    ELSE IF IsStr(configMap.c2) /\ configMap.c2.s # EmptyStr THEN "c2string"
    ELSE "none"

\* the if / else-if chain over the accepted shapes: which branch is taken
C2Shape(configMap) ==
    IF IsLst(configMap.c2) /\ Len(configMap.c2.l) > 0 THEN "c2list"
    ELSE IF IsLst(configMap.mtlsc2) THEN "mtlsc2"
    ELSE IF IsLst(configMap.httpc2) /\ Len(configMap.httpc2.l) > 0 THEN "httpc2"
    ELSE IF IsLst(configMap.httpsc2) /\ Len(configMap.httpsc2.l) > 0 THEN "httpsc2"
    ELSE IF IsStr(configMap.c2) /\ configMap.c2.s # EmptyStr THEN "c2string"
    ELSE "none"

\* implantConfig.C2 after the branch taken
ResolveC2(configMap) ==
    LET shape == C2Shape(configMap)
    IN CASE shape = "c2list" -> C2ListEndpoints(configMap.c2.l, 1)
         [] shape = "mtlsc2" -> ServerListEndpoints(configMap.mtlsc2.l, MtlsPrefix, 1)
         [] shape = "httpc2" -> ServerListEndpoints(configMap.httpc2.l, HttpPrefix, 1)
         [] shape = "httpsc2" -> ServerListEndpoints(configMap.httpsc2.l, HttpsPrefix, 1)
         [] shape = "c2string" -> <<ImplantC2(0, configMap.c2.s)>>
         [] OTHER -> <<>>

\* errors of the handlers: NewInvalidArgsError(...) and fmt.Errorf(...)
InvalidArgs(code, detail) == [ok |-> FALSE, kind |-> "InvalidArgs", code |-> code, detail |-> detail]
Failure(code, detail) == [ok |-> FALSE, kind |-> "Error", code |-> code, detail |-> detail]
NoDetail == [none |-> TRUE]

\* mutant: the default case of the switch is missing, so a URL of another
\* scheme passes
C2URLError_NoProtocolCheck(c2, index) ==
    IF c2.URL = EmptyStr THEN InvalidArgs("empty C2 URL detected", NoDetail)
    ELSE IF HasPrefix(c2.URL, MtlsPrefix)
    THEN LET parts == Split(TrimPrefix(c2.URL, MtlsPrefix), ":")
         IN IF Len(parts) # 2 /\ (Len(parts) # 1 \/ parts[1] = EmptyStr)
            THEN InvalidArgs("invalid MTLS URL format",
                             [index |-> index, url |-> c2.URL,
                              expected |-> "mtls://host:port or mtls://host"])
            ELSE NoDetail
    ELSE IF HasPrefix(c2.URL, HttpPrefix) \/ HasPrefix(c2.URL, HttpsPrefix)
    THEN IF Count(c2.URL, "/") < 3
         THEN InvalidArgs("invalid HTTP(S) URL format", [index |-> index, url |-> c2.URL])
         ELSE NoDetail
    ELSE NoDetail

\* mutant: the slash test of http(s) URLs is off by one
C2URLError_TwoSlashes(c2, index) ==
    IF c2.URL = EmptyStr THEN InvalidArgs("empty C2 URL detected", NoDetail)
    ELSE IF HasPrefix(c2.URL, MtlsPrefix)
    THEN LET parts == Split(TrimPrefix(c2.URL, MtlsPrefix), ":")
         IN IF Len(parts) # 2 /\ (Len(parts) # 1 \/ parts[1] = EmptyStr)
            THEN InvalidArgs("invalid MTLS URL format",
                             [index |-> index, url |-> c2.URL,
                              expected |-> "mtls://host:port or mtls://host"])
            ELSE NoDetail
    ELSE IF HasPrefix(c2.URL, HttpPrefix) \/ HasPrefix(c2.URL, HttpsPrefix)
    THEN IF Count(c2.URL, "/") < 2
         THEN InvalidArgs("invalid HTTP(S) URL format", [index |-> index, url |-> c2.URL])
         ELSE NoDetail
    ELSE InvalidArgs("invalid URL protocol",
                     [index |-> index, url |-> c2.URL,
                      supported |-> {MtlsPrefix, HttpPrefix, HttpsPrefix}])

\* the check of one endpoint in the "Validate C2 URLs" loop; index is the
\* 0-based loop index
C2URLError(c2, index) ==
    IF c2.URL = EmptyStr THEN InvalidArgs("empty C2 URL detected", NoDetail)
    ELSE IF HasPrefix(c2.URL, MtlsPrefix)
    THEN LET parts == Split(TrimPrefix(c2.URL, MtlsPrefix), ":")
         IN IF Len(parts) # 2 /\ (Len(parts) # 1 \/ parts[1] = EmptyStr)
            THEN InvalidArgs("invalid MTLS URL format",
                             [index |-> index, url |-> c2.URL,
                              expected |-> "mtls://host:port or mtls://host"])
            ELSE NoDetail
    ELSE IF HasPrefix(c2.URL, HttpPrefix) \/ HasPrefix(c2.URL, HttpsPrefix)
    THEN IF Count(c2.URL, "/") < 3
         THEN InvalidArgs("invalid HTTP(S) URL format", [index |-> index, url |-> c2.URL])
         ELSE NoDetail
    ELSE InvalidArgs("invalid URL protocol",
                     [index |-> index, url |-> c2.URL,
                      supported |-> {MtlsPrefix, HttpPrefix, HttpsPrefix}])

\* the loop: the error of the first offending endpoint, in index order
RECURSIVE ValidateC2URLs(_, _)
ValidateC2URLs(C2, i) ==
    IF i > Len(C2) THEN NoDetail
    ELSE IF C2URLError(C2[i], i - 1) # NoDetail THEN C2URLError(C2[i], i - 1)
    ELSE ValidateC2URLs(C2, i + 1)


(***************************************************************************)
(* HandleGenerateImplant: the local part, up to the call of client.Generate*)
(***************************************************************************)

IsMap(v) == v.t = "map"

ExecutableFormat == <<"E","X","E","C","U","T","A","B","L","E">>

\* mutant: the shellcode case of the switch sets the requested format
GenerateFormat_Honoured(configMap) ==
    IF IsStr(configMap.format)
       /\ ToLower(configMap.format.s) = <<"s","h","e","l","l","c","o","d","e">>
    THEN <<"S","H","E","L","L","C","O","D","E">>
    ELSE ExecutableFormat

\* implantConfig.Format: set to EXECUTABLE, and no case of the format switch
\* changes it (the other formats are disabled and only print a warning)
GenerateFormat(configMap) == ExecutableFormat

\* mutant: an empty name is kept
GenerateImplantName_KeepsEmpty(arguments) ==
    IF IsStr(arguments.name)
    THEN arguments.name.s
    ELSE DefaultImplantName

\* implantName: the placeholder unless arguments["name"] is a non-empty string
GenerateImplantName(arguments) ==
    IF IsStr(arguments.name) /\ arguments.name.s # EmptyStr
    THEN arguments.name.s
    ELSE DefaultImplantName

\* implantConfig.IsBeacon: the value of "isBeacon" when it is a bool
ConfigIsBeacon(configMap) == configMap.isBeacon = Bool(TRUE)

\* the implantConfig the handler has composed when it calls client.Generate
GenerateImplantConfig(configMap) ==
    [ GOOS |-> GenerateGOOS(configMap),
      GOARCH |-> GenerateGOARCH(configMap),
      Format |-> GenerateFormat(configMap),
      IsSharedLib |-> FALSE,
      IsShellcode |-> FALSE,
      IsService |-> FALSE,
      IsBeacon |-> ConfigIsBeacon(configMap),
      C2 |-> ResolveC2(configMap),
      Name |-> EmptyStr ]

MingwAmd64 == "/usr/bin/x86_64-w64-mingw32-gcc"
MingwI386 == "/usr/bin/i686-w64-mingw32-gcc"

\* the compiler the toolchain check looks for, "" when it looks for none
RequiredCompiler(goos, goarch) ==
    IF goos = Windows /\ goarch = Amd64 THEN MingwAmd64
    ELSE IF goos = Windows /\ goarch = I386 THEN MingwI386
    ELSE ""

\* mutant: only the foundC2Config flag is tested, not the number of endpoints
NoC2Configuration_FlagOnly(shape, C2) == shape = "none"

\* the test "!foundC2Config || len(implantConfig.C2) == 0"
NoC2Configuration(shape, C2) == shape = "none" \/ Len(C2) = 0

\* The handler's checks in source order; compilers is the set of compiler
\* paths that exist on the server's file system. NoDetail when every check
\* passes and client.Generate is called.
GenerateLocalError(arguments, compilers) ==
    IF ~IsMap(arguments.config)
    THEN InvalidArgs("config must be an object", NoDetail)
    ELSE
    LET configMap == arguments.config
        goos == GenerateGOOS(configMap)
        goarch == GenerateGOARCH(configMap)
        shape == C2Shape(configMap)
        C2 == ResolveC2(configMap)
    IN  IF ~PlatformSupported(goos, goarch)
        THEN InvalidArgs("unsupported platform",
                         [platform |-> PlatformString(goos, goarch),
                          supported |-> supportedPlatforms])
        ELSE IF shape = "mtlsc2" /\ Len(C2) = 0 /\ Len(configMap.mtlsc2.l) > 0
        THEN InvalidArgs("invalid mtlsc2 configuration", NoDetail)
        ELSE IF NoC2Configuration(shape, C2)
        THEN InvalidArgs("no C2 configuration found",
                         [fields |-> {"mtlsc2", "httpc2", "httpsc2", "c2"}])
        ELSE IF ValidateC2URLs(C2, 1) # NoDetail
        THEN ValidateC2URLs(C2, 1)
        ELSE IF RequiredCompiler(goos, goarch) # ""
                /\ RequiredCompiler(goos, goarch) \notin compilers
        THEN Failure("missing required compiler",
                     [path |-> RequiredCompiler(goos, goarch)])
        ELSE NoDetail

(***************************************************************************)
(* SliverClient.Generate: normalization before the RPC, error wrapping     *)
(***************************************************************************)

ClientGOOS(goos) ==
    StandardizeOS(ToLower(IF goos = EmptyStr THEN Windows ELSE goos))

\* mutant: "64" and "32" are looked for anywhere in the architecture
ClientGOARCH_Anywhere(goarch) ==
    LET a == ToLower(IF goarch = EmptyStr THEN Amd64 ELSE goarch)
    IN  IF a = <<"x","6","4">> \/ a = <<"x","8","6","_","6","4">> \/ Contains(a, <<"6","4">>)
        THEN Amd64
        ELSE IF a = <<"x","8","6">> \/ a = <<"i","3","8","6">> \/ Contains(a, <<"3","2">>)
        THEN I386
        ELSE a

ClientGOARCH(goarch) ==
    LET a == ToLower(IF goarch = EmptyStr THEN Amd64 ELSE goarch)
    IN  IF a = <<"x","6","4">> \/ a = <<"x","8","6","_","6","4">> \/ HasPrefix(a, <<"6","4">>)
        THEN Amd64
        ELSE IF a = <<"x","8","6">> \/ a = <<"i","3","8","6">> \/ HasPrefix(a, <<"3","2">>)
        THEN I386
        ELSE a

\* the config of the GenerateReq
ClientGenerateConfig(config, name) ==
    [config EXCEPT !.GOOS = ClientGOOS(config.GOOS),
                   !.GOARCH = ClientGOARCH(config.GOARCH),
                   !.Name = IF name # EmptyStr THEN name ELSE config.Name]

CrossCompilerWrap ==
    <<"f","a","i","l","e","d"," ","t","o"," ","g","e","n","e","r","a","t","e"," ",
      "i","m","p","l","a","n","t",":"," ","c","r","o","s","s","-","c","o","m","p",
      "i","l","e","r"," ","e","r","r","o","r"," ","-"," ">>
BuildProcessWrap ==
    <<"f","a","i","l","e","d"," ","t","o"," ","g","e","n","e","r","a","t","e"," ",
      "i","m","p","l","a","n","t",":"," ","b","u","i","l","d"," ","p","r","o","c",
      "e","s","s"," ","e","r","r","o","r"," ","-"," ">>
NetworkWrap ==
    <<"f","a","i","l","e","d"," ","t","o"," ","g","e","n","e","r","a","t","e"," ",
      "i","m","p","l","a","n","t",":"," ","n","e","t","w","o","r","k"," ","e","r",
      "r","o","r"," ","-"," ">>
GenericWrap ==
    <<"f","a","i","l","e","d"," ","t","o"," ","g","e","n","e","r","a","t","e"," ",
      "i","m","p","l","a","n","t",":"," ">>

\* the category the client's if-chain puts a raw RPC error text in
ClientErrorCategory(errorMsg) ==
    IF Contains(errorMsg, <<"C","C">>) \/ Contains(errorMsg, <<"g","c","c">>)
       \/ Contains(errorMsg, <<"m","i","n","g","w">>)
    THEN "cross-compiler"
    ELSE IF Contains(errorMsg, <<"g","o"," ","b","u","i","l","d">>)
            \/ Contains(errorMsg, <<"e","x","i","t"," ","s","t","a","t","u","s">>)
    THEN "build process"
    ELSE IF Contains(errorMsg, <<"c","o","n","n","e","c","t">>)
            \/ Contains(errorMsg, <<"n","e","t","w","o","r","k">>)
            \/ Contains(errorMsg, <<"c","o","n","n","e","c","t","i","o","n">>)
    THEN "network"
    ELSE "generic"

\* the text of the error client.Generate returns for a raw RPC error text
ClientGenerateError(errorMsg, config) ==
    LET cat == ClientErrorCategory(errorMsg)
    IN CASE cat = "cross-compiler" -> CrossCompilerWrap \o errorMsg
         [] cat = "build process" -> BuildProcessWrap \o errorMsg
         [] cat = "network" -> NetworkWrap \o errorMsg
         [] OTHER -> GenericWrap \o errorMsg
                     \o <<" ","(","p","l","a","t","f","o","r","m",":"," ">>
                     \o PlatformString(config.GOOS, config.GOARCH)
                     \o <<","," ","f","o","r","m","a","t",":"," ">>
                     \o config.Format \o <<")">>

(***************************************************************************)
(* HandleGenerateImplant: after client.Generate returns                    *)
(***************************************************************************)

\* the error the handler returns for the error text client.Generate returned
GenerateHandlerError(errorMsg, platform) ==
    IF Contains(errorMsg, <<"e","x","i","t"," ","s","t","a","t","u","s"," ","1">>)
    THEN IF Contains(errorMsg, <<"C","C">>) \/ Contains(errorMsg, <<"g","c","c">>)
         THEN Failure("cross-compiler error", NoDetail)
         ELSE IF Contains(errorMsg, <<"u","n","k","n","o","w","n"," ","a","r","c",
                                      "h","i","t","e","c","t","u","r","e">>)
                 \/ Contains(errorMsg, <<"u","n","k","n","o","w","n"," ","O","S">>)
         THEN Failure("unsupported platform reported by build", [platform |-> platform])
         ELSE IF Contains(errorMsg, <<"c","o","n","n","e","c","t","i","o","n">>)
                 \/ Contains(errorMsg, <<"n","e","t","w","o","r","k">>)
         THEN Failure("network error while building implant", NoDetail)
         ELSE Failure("build failed", NoDetail)
    ELSE Failure("failed to generate implant", [message |-> errorMsg])


(***************************************************************************)
(* HandleSaveImplantProfile                                                *)
(***************************************************************************)

\* implantConfig.GOOS in the profile handler (its own copy of the code)
ProfileGOOS(configMap) ==
    LET raw == IF IsStr(configMap.OS) THEN ToLower(configMap.OS.s)
               ELSE IF IsStr(configMap.os) THEN ToLower(configMap.os.s)
               ELSE EmptyStr
        std == CASE raw \in {<<"m","a","c">>, <<"m","a","c","o","s">>, <<"o","s","x">>} -> Darwin
                 [] raw = <<"w","i","n">> -> Windows
                 [] raw = <<"l","i","n">> -> Linux
                 [] OTHER -> raw
    IN IF std = EmptyStr THEN Windows ELSE std

\* implantConfig.GOARCH in the profile handler
ProfileGOARCH(configMap) ==
    LET goarch == IF IsStr(configMap.arch) THEN ToLower(configMap.arch.s) ELSE EmptyStr
        std == IF ~IsStr(configMap.arch) THEN EmptyStr
               ELSE CASE goarch \in {<<"x","6","4">>, <<"x","8","6","_","6","4">>, Amd64,
                                     <<"6","4">>, <<"6","4","b","i","t">>} -> Amd64
                      [] goarch \in {<<"x","8","6">>, <<"i","3","8","6">>, I386,
                                     <<"3","2">>, <<"3","2","b","i","t">>} -> I386
                      [] goarch \in {Arm64, <<"a","a","r","c","h","6","4">>} -> Arm64
                      [] OTHER -> goarch
    IN IF std = EmptyStr THEN Amd64 ELSE std

\* implantConfig.C2 in the profile handler: a c2 list of any length, else a
\* c2 string of any length; no other key is read
ProfileC2(configMap) ==
    IF IsLst(configMap.c2) THEN C2ListEndpoints(configMap.c2.l, 1)
    ELSE IF IsStr(configMap.c2) THEN <<ImplantC2(0, configMap.c2.s)>>
    ELSE <<>>

ProfileImplantConfig(configMap) ==
    [ GOOS |-> ProfileGOOS(configMap),
      GOARCH |-> ProfileGOARCH(configMap),
      Format |-> ExecutableFormat,
      IsSharedLib |-> FALSE,
      IsShellcode |-> FALSE,
      IsService |-> FALSE,
      IsBeacon |-> ConfigIsBeacon(configMap),
      C2 |-> ProfileC2(configMap),
      Name |-> EmptyStr ]

\* the handler's checks before it calls client.SaveImplantProfile
ProfileLocalError(arguments) ==
    IF ~IsStr(arguments.name) \/ arguments.name.s = EmptyStr
    THEN InvalidArgs("name must be a non-empty string", NoDetail)
    ELSE IF ~IsMap(arguments.config)
    THEN InvalidArgs("config must be an object", NoDetail)
    ELSE NoDetail

(***************************************************************************)
(* SliverClient.GetSession, SliverClient.Execute, HandleExecute            *)
(***************************************************************************)

NoSession == [none |-> TRUE]

\* mutant: when no session has the ID the loop's last session is returned
RECURSIVE FindSession_LastWhenMissing(_, _, _)
FindSession_LastWhenMissing(list, sessionID, i) ==
    IF i > Len(list) THEN (IF Len(list) = 0 THEN NoSession ELSE list[Len(list)])
    ELSE IF list[i].ID = sessionID THEN list[i]
    ELSE FindSession_LastWhenMissing(list, sessionID, i + 1)

\* the loop of GetSession over the returned list: the first session with
\* the ID, NoSession when there is none
RECURSIVE FindSession(_, _, _)
FindSession(list, sessionID, i) ==
    IF i > Len(list) THEN NoSession
    ELSE IF list[i].ID = sessionID THEN list[i]
    ELSE FindSession(list, sessionID, i + 1)

\* the handler's isWindows
HandlerIsWindows(session) ==
    session.OS # EmptyStr /\ ToLower(session.OS) = Windows

\* the client's choice of the shell chain
\* mutant: the OS is compared as it is spelled
ClientIsWindows_CaseSensitive(session) == session.OS = Windows

ClientIsWindows(session) == ToLower(session.OS) = Windows

PsPrefix == "$OutputEncoding = [System.Text.Encoding]::UTF8; "
PsSuffix == "; exit $LASTEXITCODE"

\* the ExecuteReq of the first attempt
PrimaryReq(isWindows, sessionID, command) ==
    IF isWindows
    THEN [SessionID |-> sessionID, Path |-> "cmd.exe",
          Args |-> <<"/D", "/u", "/V:OFF", "/C", command>>, Output |-> TRUE]
    ELSE [SessionID |-> sessionID, Path |-> "/bin/bash",
          Args |-> <<"-c", command>>, Output |-> TRUE]

\* the ExecuteReq of the second attempt
FallbackReq(isWindows, sessionID, command) ==
    IF isWindows
    THEN [SessionID |-> sessionID, Path |-> "powershell.exe",
          Args |-> <<"-NoProfile", "-NonInteractive", "-OutputFormat", "Text",
                     "-Command", <<PsPrefix, command, PsSuffix>>>>,
          Output |-> TRUE]
    ELSE [SessionID |-> sessionID, Path |-> "/bin/sh",
          Args |-> <<"-c", command>>, Output |-> TRUE]

\* mutant: the second error is swallowed and an empty success comes back
BothFailed_Swallowed(isWindows, err) ==
    [ok |-> TRUE, message |-> "no output", text |-> EmptyStr]

\* the error client.Execute returns when both attempts failed
BothFailed(isWindows, err) ==
    Failure("failed to execute command with both",
            [shells |-> IF isWindows THEN <<"cmd.exe", "powershell.exe">>
                        ELSE <<"bash", "sh">>,
             cause |-> err])

CRLFMarker == <<"#","#","C","R","L","F","#","#">>

\* mutant: the step that turns a bare CR into LF is missing
NormalizeWindowsOutput_NoBareCR(output) ==
    LET s1 == ReplaceAll(output, <<NUL>>, <<>>)
        s2 == ReplaceAll(s1, <<CR, LF>>, CRLFMarker)
        s4 == ReplaceAll(s2, CRLFMarker, <<LF>>)
    IN TrimSpace(s4)

\* the Windows branch of the output processing
NormalizeWindowsOutput(output) ==
    LET s1 == ReplaceAll(output, <<NUL>>, <<>>)
        s2 == ReplaceAll(s1, <<CR, LF>>, CRLFMarker)
        s3 == ReplaceAll(s2, <<CR>>, <<LF>>)
        s4 == ReplaceAll(s3, CRLFMarker, <<LF>>)
    IN TrimSpace(s4)

\* mutant: without output the general branch is taken and an empty text
\* comes back
ExecuteResult_EmptyPayload(execute, isWindows) ==
    IF execute.Err # EmptyStr
    THEN [ok |-> TRUE, message |-> "Failed to execute command", text |-> execute.Err]
    ELSE LET output == IF Len(execute.Stdout) = 0 THEN execute.Stderr ELSE execute.Stdout
         IN IF isWindows
            THEN [ok |-> TRUE, message |-> "Output from Windows command",
                  text |-> NormalizeWindowsOutput(output)]
            ELSE [ok |-> TRUE, message |-> "Output", text |-> output]

\* what HandleExecute returns for the *sliverpb.Execute the client returned:
\* text is the payload that follows the fixed header of that message
ExecuteResult(execute, isWindows) ==
    IF execute.Err # EmptyStr
    THEN [ok |-> TRUE, message |-> "Failed to execute command", text |-> execute.Err]
    ELSE LET output == IF Len(execute.Stdout) = 0 THEN execute.Stderr ELSE execute.Stdout
         IN IF Len(output) = 0
            THEN IF isWindows
                 THEN [ok |-> TRUE, message |-> "no output (Windows)", text |-> EmptyStr]
                 ELSE [ok |-> TRUE, message |-> "no output", text |-> EmptyStr]
            ELSE IF isWindows
                 THEN [ok |-> TRUE, message |-> "Output from Windows command",
                       text |-> NormalizeWindowsOutput(output)]
                 ELSE [ok |-> TRUE, message |-> "Output", text |-> output]


(***************************************************************************)
(* Inputs: the requests, the collaborator's answers                        *)
(***************************************************************************)

MaxListLen == 2      \* longest list under a C2 key
MaxBodyLen == 3      \* longest text after the scheme of a generated c2 URL
MaxOutputLen == 3    \* longest generated command output
MaxSessionChanges == 1  \* concurrent changes of the session list per request

SeqsUpTo(alphabet, n) == UNION {[1..k -> alphabet] : k \in 0..n}

Map(OS, os, arch, format, c2, mtlsc2, httpc2, httpsc2) ==
    [t |-> "map", OS |-> OS, os |-> os, arch |-> arch, format |-> format,
     c2 |-> c2, mtlsc2 |-> mtlsc2, httpc2 |-> httpc2, httpsc2 |-> httpsc2,
     isBeacon |-> Absent]

FtpPrefix == <<"f","t","p",":","/","/">>

\* c2 URLs: every text of up to MaxBodyLen characters after each scheme
URLBodies == SeqsUpTo({"a", "1", ":", "/"}, MaxBodyLen)
URLs == {prefix \o body : prefix \in {EmptyStr, MtlsPrefix, HttpPrefix, HttpsPrefix, FtpPrefix},
                          body \in URLBodies}

OSNames ==
    { EmptyStr, <<"m","a","c">>, <<"m","a","c","o","s">>, <<"o","s","x">>, <<"w","i","n">>,
      <<"l","i","n">>, Windows, Linux, Darwin, <<"M","a","c","O","S">>, <<"W","I","N">>,
      <<"L","i","n","u","x">>, <<"f","r","e","e","b","s","d">>,
      <<"L","U0130","N","U","X">>, <<"W","U0130","N">> }

ArchNames ==
    { EmptyStr, <<"x","6","4">>, <<"x","8","6","_","6","4">>, Amd64, <<"6","4">>,
      <<"6","4","b","i","t">>, <<"x","8","6">>, <<"i","3","8","6">>, I386, <<"3","2">>,
      <<"3","2","b","i","t">>, Arm64, <<"a","a","r","c","h","6","4">>,
      <<"A","M","D","6","4">>, <<"X","6","4">>, <<"A","a","r","c","h","6","4">>,
      <<"m","i","p","s">>, <<"6","4","k">>, <<"3","2","x">>, <<"U00C9","U212A">> }

OSValues == {Absent, Num} \cup {Str(n) : n \in OSNames}
ArchValues == {Absent, Num} \cup {Str(n) : n \in ArchNames}

HostA == <<"a">>
HostPortB == <<"b",":","1">>
UrlMtlsA == MtlsPrefix \o HostA
UrlHttpA == HttpPrefix \o HostA
UrlHttpsA == HttpsPrefix \o HostA
HostSlash == <<"a","/">>

\* elements of an mtlsc2 / httpc2 / httpsc2 list
ServerElems ==
    { Num, Str(EmptyStr), Str(HostA), Str(HostSlash), Str(HostPortB), Str(<<":","1">>), Str(<<"a",":","1",":","2">>),
      Str(UrlMtlsA), Str(UrlHttpA), Str(UrlHttpsA), Str(FtpPrefix \o HostA) }

\* elements of a c2 list
C2Elems ==
    { Num, Str(UrlMtlsA), Obj(Absent), Obj(Num), Obj(Str(EmptyStr)), Obj(Str(UrlMtlsA)),
      Obj(Str(MtlsPrefix \o HostPortB)), Obj(Str(UrlHttpA)), Obj(Str(HttpsPrefix)),
      Obj(Str(FtpPrefix \o HostA)), Obj(Str(HostA)) }

ListsOf(elems) == {Lst(l) : l \in SeqsUpTo(elems, MaxListLen)}

\* configs that vary the platform keys, with one valid and one absent C2
PlatformConfigs ==
    {Map(OS, Absent, arch, Absent, c2, Absent, Absent, Absent) :
        OS \in OSValues, arch \in ArchValues, c2 \in {Str(UrlMtlsA), Absent}}
    \cup
    {Map(OS, os, Absent, Absent, Str(UrlMtlsA), Absent, Absent, Absent) :
        OS \in {Absent, Num, Str(Linux)}, os \in {Absent, Num, Str(Darwin), Str(<<"L","I","N">>)}}

\* configs that vary one C2 key over everything it can hold
OneKeyConfigs ==
    {Map(Absent, Str(Linux), Absent, Absent, c2, Absent, Absent, Absent) :
        c2 \in {Num} \cup {Str(u) : u \in URLs} \cup ListsOf(C2Elems)}
    \cup
    {Map(Absent, Str(Linux), Absent, Absent, Absent, l, Absent, Absent) :
        l \in {Num} \cup ListsOf(ServerElems)}
    \cup
    {Map(Absent, Str(Linux), Absent, Absent, Absent, Absent, l, Absent) :
        l \in {Num} \cup ListsOf(ServerElems)}
    \cup
    {Map(Absent, Str(Linux), Absent, Absent, Absent, Absent, Absent, l) :
        l \in {Num} \cup ListsOf(ServerElems)}

\* configs that combine the C2 keys, on a supported and an unsupported platform
ManyKeyConfigs ==
    {Map(Absent, os, arch, Absent, c2, mtlsc2, httpc2, httpsc2) :
        os \in {Str(Darwin)}, arch \in {Absent, Str(I386)},
        c2 \in {Absent, Lst(<<>>), Lst(<<Obj(Str(UrlMtlsA)), Num, Obj(Str(HttpsPrefix \o HostSlash))>>),
                Lst(<<Num>>), Str(EmptyStr), Str(UrlMtlsA)},
        mtlsc2 \in {Absent, Num, Lst(<<>>), Lst(<<Num>>), Lst(<<Num, Str(HostPortB)>>)},
        httpc2 \in {Absent, Lst(<<>>), Lst(<<Num>>), Lst(<<Str(<<"a","/","1">>), Num, Str(HostSlash)>>)},
        httpsc2 \in {Absent, Lst(<<>>), Lst(<<Str(HostSlash)>>)}}

\* configs that vary the requested format
FormatConfigs ==
    {Map(Absent, Str(Linux), Absent, format, Str(UrlMtlsA), Absent, Absent, Absent) :
        format \in {Num, Str(<<"s","h","e","l","l","c","o","d","e">>),
                    Str(<<"S","h","a","r","e","d","L","i","b">>), Str(<<"d","l","l">>),
                    Str(<<"s","e","r","v","i","c","e">>), Str(<<"e","x","e">>)}}

\* the configs of the documented examples
DomainCom == <<"d","o","m","a","i","n",".","c","o","m">>
TenDotOne == <<"1","0",".","0",".","0",".","1">>
ExampleConfigs ==
    { Map(Absent, Str(Linux), Absent, Absent, Absent, Lst(<<Str(TenDotOne)>>), Absent, Absent),
      Map(Absent, Str(Linux), Absent, Absent, Absent, Absent, Lst(<<Str(DomainCom)>>), Absent),
      Map(Absent, Str(Linux), Absent, Absent, Absent, Absent, Absent, Lst(<<Str(DomainCom)>>)),
      Map(Absent, Str(Linux), Absent, Absent, Absent, Absent,
          Lst(<<Str(DomainCom \o <<"/">>), Str(HostSlash)>>), Absent) }

\* configs that vary the isBeacon key
BeaconConfigs ==
    {[Map(Absent, Str(Linux), Absent, Absent, Str(UrlMtlsA), Absent, Absent, Absent)
        EXCEPT !.isBeacon = b] : b \in {Bool(TRUE), Bool(FALSE), Num}}

ConfigMaps ==
    PlatformConfigs \cup OneKeyConfigs \cup ManyKeyConfigs \cup FormatConfigs
    \cup ExampleConfigs \cup BeaconConfigs

NameValues == {Absent, Num, Str(EmptyStr), Str(<<"i","m","p","1">>)}
OutputDirValues == {Absent, Str(EmptyStr), Str(<<"o","u","t">>)}

GenerateRequests ==
    {[tool |-> "generate", arguments |-> [config |-> c, name |-> Absent, outputDir |-> Absent]] :
        c \in ConfigMaps \cup {Absent, Num, Str(UrlHttpsA)}}
    \cup
    {[tool |-> "generate", arguments |-> [config |-> c, name |-> n, outputDir |-> d]] :
        c \in {Num, Map(Absent, Str(Linux), Absent, Absent, Str(UrlMtlsA), Absent, Absent, Absent),
               Map(Absent, Absent, Absent, Absent, Absent, Absent, Absent, Absent)},
        n \in NameValues, d \in OutputDirValues}

ProfileRequests ==
    {[tool |-> "save_profile", arguments |-> [config |-> c, name |-> Str(<<"p","1">>)]] :
        c \in ConfigMaps \cup {Absent, Num}}
    \cup
    {[tool |-> "save_profile", arguments |-> [config |-> c, name |-> n]] :
        c \in {Num, Map(Absent, Str(Linux), Absent, Absent, Str(UrlMtlsA), Absent, Absent, Absent)},
        n \in NameValues}

SessionS1 == <<"s","1">>
SessionS2 == <<"s","2">>

ExecuteRequest(sessionID, command) ==
    [tool |-> "execute", arguments |-> [sessionID |-> sessionID, command |-> command]]

ExecuteRequests ==
    {ExecuteRequest(i, c) :
        i \in {Absent, Num, Str(SessionS1)},
        c \in {Absent, Num, Str(<<"l","s">>), Str(<<"e","c","h","o"," ","a"," ","|"," ","w","c">>)}}

ValidExecuteRequests ==
    {r \in ExecuteRequests : IsStr(r.arguments.sessionID) /\ IsStr(r.arguments.command)}

Session(id, os) == [ID |-> id, OS |-> os]

\* what GetSessions can return
SessionLists ==
    { <<>>, <<Session(SessionS2, Linux)>> }
    \cup {<<Session(SessionS1, os)>> :
            os \in {Windows, <<"W","i","n","d","o","w","s">>, <<"W","U0130","N","D","O","W","S">>,
                    Linux, Darwin, EmptyStr}}
    \cup { <<Session(SessionS2, Windows), Session(SessionS1, Linux)>>,
           <<Session(SessionS1, Windows), Session(SessionS1, Linux)>> }

\* a *sliverpb.Execute: the captured output, the response's error field
\* (empty also when there is no response) and the exit status
Execute(stdout, stderr, err, status) ==
    [Stdout |-> stdout, Stderr |-> stderr, Err |-> err, Status |-> status]

Outputs == SeqsUpTo({NUL, CR, LF, "a"}, MaxOutputLen)

SpecialOutputs ==
    { <<"l","i","n","e","1",CR,LF,NUL,"l","i","n","e","2",CR>>,
      <<"x","#","#","C","R","L","F","#","#","y">>,
      <<SP,"a",SP,"b",TAB,LF>>,
      <<CR,NUL,LF,"a">>,
      <<FF,"a",VT>>,
      <<"U00A0","a",SP,"b","U2003">> }

\* answers that vary the captured stdout alone
OutputAnswers == {Execute(o, EmptyStr, EmptyStr, 0) : o \in Outputs \cup SpecialOutputs}

\* answers that vary stderr, the error field and the exit status
StatusAnswers ==
    {Execute(o, e, r, st) :
        o \in {EmptyStr, <<"a",CR,LF>>}, e \in {EmptyStr, <<"e",CR,NUL>>},
        r \in {EmptyStr, <<"d","e","n","i","e","d",CR>>}, st \in {0, 1}}

\* raw error texts of a failed RPC
RPCErrors ==
    { <<"t","i","m","e","o","u","t">>,
      <<"e","x","i","t"," ","s","t","a","t","u","s"," ","1">>,
      <<"e","x","i","t"," ","s","t","a","t","u","s"," ","2">>,
      <<"g","c","c"," ","n","o","t"," ","f","o","u","n","d">>,
      <<"e","x","i","t"," ","s","t","a","t","u","s"," ","1",":"," ","g","c","c">>,
      <<"e","x","i","t"," ","s","t","a","t","u","s"," ","1",":"," ","m","i","n","g","w">>,
      <<"e","x","i","t"," ","s","t","a","t","u","s"," ","1",":"," ","u","n","k","n","o","w","n"," ","O","S">>,
      <<"e","x","i","t"," ","s","t","a","t","u","s"," ","1",":"," ","c","o","n","n","e","c","t","i","o","n">>,
      <<"g","o"," ","b","u","i","l","d"," ","n","e","t","w","o","r","k">>,
      <<"c","o","n","n","e","c","t","i","o","n"," ","r","e","f","u","s","e","d">>,
      <<"n","e","t","w","o","r","k"," ","d","o","w","n">>,
      <<"c","a","n","n","o","t"," ","c","o","n","n","e","c","t">> }

NoFile == [none |-> TRUE]
File(name, hasData) == [Name |-> name, HasData |-> hasData]

\* what the Generate RPC can answer: an error, or a build with or without file
GenerateAnswers ==
    {[err |-> TRUE, text |-> e] : e \in RPCErrors}
    \cup {[err |-> FALSE, File |-> f] :
            f \in {NoFile, File("implant.bin", FALSE), File("implant.bin", TRUE)}}

NoResult == [running |-> TRUE]
Nothing == [none |-> TRUE]

\* generate requests served at the same time: the same valid config, with
\* the same name or none, with and without an outputDir of their own
ConcurrentRequests ==
    {[tool |-> "generate",
      arguments |-> [config |-> Map(Absent, Str(Linux), Absent, Absent, Str(UrlMtlsA),
                                    Absent, Absent, Absent),
                     name |-> n, outputDir |-> d]] :
        n \in {Str(<<"i","m","p","1">>)}, d \in {Absent, Str(<<"o","u","t">>)}}

\* a concurrent request that fails the local checks
InvalidConcurrentRequest ==
    [tool |-> "generate",
     arguments |-> [config |-> Num, name |-> Str(<<"i","m","p","1">>), outputDir |-> Absent]]

\* no second request
NoPeer == [none |-> TRUE]

\* a request that has arrived and whose handler has not run yet
Arrived(request) ==
    [req |-> request, pc |-> "start", calls |-> <<>>, pending |-> Nothing,
     result |-> NoResult]

(***************************************************************************)
(* Initial states                                                          *)
(***************************************************************************)

Init ==
    /\ pc = "start"
    /\ calls = <<>>
    /\ pending = Nothing
    /\ result = NoResult
    /\ changes = 0
    /\ OutputDir = <<"i","m","p","l","a","n","t","s">>
    /\ \/ /\ req \in GenerateRequests \cup ProfileRequests
          /\ sessions = <<>>
          /\ remote = Execute(EmptyStr, EmptyStr, EmptyStr, 0)
          /\ peer = NoPeer
       \/ /\ req \in ConcurrentRequests \cup {InvalidConcurrentRequest}
          /\ sessions = <<>>
          /\ remote = Execute(EmptyStr, EmptyStr, EmptyStr, 0)
          /\ peer \in {Arrived(r) : r \in ConcurrentRequests}
       \/ /\ req = ExecuteRequest(Str(SessionS1), Str(<<"l","s">>))
          /\ sessions \in {<<Session(SessionS1, Windows)>>, <<Session(SessionS1, Linux)>>}
          /\ remote = Execute(<<"a",CR,LF>>, EmptyStr, EmptyStr, 0)
          /\ peer \in {Arrived(r) : r \in ConcurrentRequests}
       \/ /\ req \in ExecuteRequests
          /\ sessions = <<Session(SessionS1, Linux)>>
          /\ remote = Execute(<<"a">>, EmptyStr, EmptyStr, 0)
          /\ peer = NoPeer
       \/ /\ req \in ValidExecuteRequests
          /\ sessions \in SessionLists
          /\ remote \in StatusAnswers
          /\ peer = NoPeer
       \/ /\ req = ExecuteRequest(Str(SessionS1), Str(<<"l","s">>))
          /\ sessions \in {<<Session(SessionS1, Windows)>>, <<Session(SessionS1, Linux)>>}
          /\ remote \in OutputAnswers
          /\ peer = NoPeer


(***************************************************************************)
(* Actions                                                                 *)
(***************************************************************************)

Return(r) ==
    /\ result' = r
    /\ pc' = "done"

\* entries of the log of RPC calls: the request and, for the calls whose
\* answer the flow branches on, whether the RPC returned an error
GenerateCall(config) == [op |-> "Generate", Config |-> config]
SaveProfileCall(profile) == [op |-> "SaveImplantProfile", Profile |-> profile]
GetSessionsSent ==
    [op |-> "GetSessions", answered |-> FALSE, failed |-> FALSE, Sessions |-> <<>>]
GetSessionsCall(rpcOK, list) ==
    [op |-> "GetSessions", answered |-> TRUE, failed |-> ~rpcOK,
     Sessions |-> IF rpcOK THEN list ELSE <<>>]
ExecuteSent(request) ==
    [op |-> "Execute", Req |-> request, answered |-> FALSE, failed |-> FALSE]
ExecuteCall(request, failed) ==
    [op |-> "Execute", Req |-> request, answered |-> TRUE, failed |-> failed]

\* HandleGenerateImplant from its entry to the Generate RPC that
\* client.Generate sends (or to the return of a failed check)
HandleGenerateImplant ==
    /\ pc = "start"
    /\ req.tool = "generate"
    /\ \E compilers \in SUBSET {MingwAmd64, MingwI386} :
        LET err == GenerateLocalError(req.arguments, compilers)
            configMap == req.arguments.config
            implantName == GenerateImplantName(req.arguments)
            config == ClientGenerateConfig(GenerateImplantConfig(configMap), implantName)
        IN  IF err # NoDetail
            THEN /\ Return(err)
                 /\ UNCHANGED <<calls, pending>>
            ELSE /\ calls' = Append(calls, GenerateCall(config))
                 /\ pending' = [platform |-> PlatformString(GenerateGOOS(configMap),
                                                            GenerateGOARCH(configMap)),
                                implantName |-> implantName,
                                implantConfig |-> config,
                                answer |-> Nothing]
                 /\ pc' = "generate_rpc"
                 /\ UNCHANGED result
    /\ UNCHANGED <<req, sessions, changes, remote, OutputDir, peer>>

\* the output directory of a request: the default unless overridden
GenerateOutputDir(arguments, default) ==
    IF IsStr(arguments.outputDir) /\ arguments.outputDir.s # EmptyStr
    THEN arguments.outputDir.s
    ELSE default

\* mutant: the directory a request used becomes the process-wide default
GenerateReturn_StoresOutputDir ==
    /\ pc = "generate_rpc"
    /\ \E answer \in GenerateAnswers, mkdirOK \in BOOLEAN, writeOK \in BOOLEAN :
        LET outputDir == GenerateOutputDir(req.arguments, OutputDir)
        IN  /\ pending' = [pending EXCEPT !.answer = answer]
            /\ IF answer.err
               THEN Return(GenerateHandlerError(
                               ClientGenerateError(answer.text, pending.implantConfig),
                               pending.platform))
               ELSE IF answer.File = NoFile \/ ~answer.File.HasData
               THEN Return(Failure("no file data returned from server", NoDetail))
               ELSE IF ~mkdirOK
               THEN Return(Failure("failed to create output directory", [dir |-> outputDir]))
               ELSE IF ~writeOK
               THEN Return(Failure("failed to save implant to disk", NoDetail))
               ELSE Return([ok |-> TRUE,
                            name |-> pending.implantName,
                            os |-> pending.implantConfig.GOOS,
                            arch |-> pending.implantConfig.GOARCH,
                            format |-> pending.implantConfig.Format,
                            isBeacon |-> pending.implantConfig.IsBeacon,
                            fileName |-> answer.File.Name,
                            dir |-> outputDir])
    /\ OutputDir' = GenerateOutputDir(req.arguments, OutputDir)
    /\ UNCHANGED <<req, calls, sessions, changes, remote, peer>>

\* the Generate RPC answers; client.Generate and the handler finish
GenerateReturn ==
    /\ pc = "generate_rpc"
    /\ \E answer \in GenerateAnswers, mkdirOK \in BOOLEAN, writeOK \in BOOLEAN :
        LET outputDir == GenerateOutputDir(req.arguments, OutputDir)
        IN  /\ pending' = [pending EXCEPT !.answer = answer]
            /\ IF answer.err
               THEN Return(GenerateHandlerError(
                               ClientGenerateError(answer.text, pending.implantConfig),
                               pending.platform))
               ELSE IF answer.File = NoFile \/ ~answer.File.HasData
               THEN Return(Failure("no file data returned from server", NoDetail))
               ELSE IF ~mkdirOK
               THEN Return(Failure("failed to create output directory", [dir |-> outputDir]))
               ELSE IF ~writeOK
               THEN Return(Failure("failed to save implant to disk", NoDetail))
               ELSE Return([ok |-> TRUE,
                            name |-> pending.implantName,
                            os |-> pending.implantConfig.GOOS,
                            arch |-> pending.implantConfig.GOARCH,
                            format |-> pending.implantConfig.Format,
                            isBeacon |-> pending.implantConfig.IsBeacon,
                            fileName |-> answer.File.Name,
                            dir |-> outputDir])
    /\ UNCHANGED <<req, calls, sessions, changes, remote, OutputDir, peer>>

\* HandleSaveImplantProfile from its entry to the SaveImplantProfile RPC
HandleSaveImplantProfile ==
    /\ pc = "start"
    /\ req.tool = "save_profile"
    /\ LET err == ProfileLocalError(req.arguments)
       IN  IF err # NoDetail
           THEN /\ Return(err)
                /\ UNCHANGED <<calls, pending>>
           ELSE LET profile == [Name |-> req.arguments.name.s,
                                Config |-> ProfileImplantConfig(req.arguments.config)]
                IN  /\ calls' = Append(calls, SaveProfileCall(profile))
                    /\ pending' = [profile |-> profile]
                    /\ pc' = "profile_rpc"
                    /\ UNCHANGED result
    /\ UNCHANGED <<req, sessions, changes, remote, OutputDir, peer>>

\* a saved profile without a Config
NoConfig == [none |-> TRUE]

\* what the SaveImplantProfile RPC can answer to a profile: an error, or the
\* profile as the server stored it: the one sent, one the server changed
\* (name, platform, format, beacon flag), or one without a Config
SaveProfileAnswers(profile) ==
    {[err |-> TRUE, text |-> <<"t","i","m","e","o","u","t">>]}
    \cup {[err |-> FALSE, Profile |-> p] :
            p \in { profile,
                    [Name |-> profile.Name \o <<"-","s","a","v","e","d">>,
                     Config |-> [profile.Config EXCEPT
                                    !.GOOS = Windows, !.GOARCH = I386,
                                    !.Format = <<"S","H","A","R","E","D","_","L","I","B">>,
                                    !.IsBeacon = TRUE]],
                    [Name |-> profile.Name, Config |-> NoConfig] }}

\* the SaveImplantProfile RPC answers; the handler returns the client's
\* wrapped error or the fields of the saved profile the server answered
\* with; reading the fields of a missing Config is a nil dereference, the
\* handler panics and returns nothing
SaveProfileReturn ==
    /\ pc = "profile_rpc"
    /\ \E answer \in SaveProfileAnswers(pending.profile) :
        /\ pending' = [profile |-> pending.profile, answer |-> answer]
        /\ IF answer.err
           THEN Return(Failure("failed to save implant profile", [cause |-> answer.text]))
           ELSE IF answer.Profile.Config = NoConfig
           THEN /\ pc' = "panicked"
                /\ UNCHANGED result
           ELSE Return([ok |-> TRUE,
                        name |-> answer.Profile.Name,
                        os |-> answer.Profile.Config.GOOS,
                        arch |-> answer.Profile.Config.GOARCH,
                        format |-> answer.Profile.Config.Format,
                        isBeacon |-> answer.Profile.Config.IsBeacon])
    /\ UNCHANGED <<req, calls, sessions, changes, remote, OutputDir, peer>>

\* SliverClient.GetSession against the session list as it is now: the
\* session, or the error it returns. rpcOK: the GetSessions RPC succeeded.
GetSession(rpcOK, sessionID) ==
    IF ~rpcOK THEN Failure("failed to get sessions", NoDetail)
    ELSE IF FindSession(sessions, sessionID, 1) = NoSession
    THEN Failure("session not found", [id |-> sessionID])
    ELSE FindSession(sessions, sessionID, 1)

IsFailure(v) == "ok" \in DOMAIN v /\ ~v.ok

\* the answer to the call sent last takes its place in the log
Answered(log, entry) == [log EXCEPT ![Len(log)] = entry]

\* the errors an Execute RPC can return
ExecuteErrors(texts) == {Nothing} \cup {[text |-> t] : t \in texts}

\* mutant: the command check comes after the session lookup
HandleExecute_LookupFirst ==
    /\ pc = "start"
    /\ req.tool = "execute"
    /\ IF ~IsStr(req.arguments.sessionID)
       THEN /\ Return(InvalidArgs("sessionID must be a string", NoDetail))
            /\ UNCHANGED <<calls, pending>>
       ELSE IF ~IsStr(req.arguments.command)
       THEN /\ calls' = Append(calls, GetSessionsCall(TRUE, sessions))
            /\ Return(InvalidArgs("command must be a string", NoDetail))
            /\ UNCHANGED pending
       ELSE /\ calls' = Append(calls, GetSessionsSent)
            /\ pc' = "handler_lookup"
            /\ UNCHANGED <<pending, result>>
    /\ UNCHANGED <<req, sessions, changes, remote, OutputDir, peer>>

\* HandleExecute from its entry to the GetSessions RPC that its GetSession
\* sends (or to the return of a failed argument check)
HandleExecute ==
    /\ pc = "start"
    /\ req.tool = "execute"
    /\ IF ~IsStr(req.arguments.sessionID)
       THEN /\ Return(InvalidArgs("sessionID must be a string", NoDetail))
            /\ UNCHANGED <<calls, pending>>
       ELSE IF ~IsStr(req.arguments.command)
       THEN /\ Return(InvalidArgs("command must be a string", NoDetail))
            /\ UNCHANGED <<calls, pending>>
       ELSE /\ calls' = Append(calls, GetSessionsSent)
            /\ pc' = "handler_lookup"
            /\ UNCHANGED <<pending, result>>
    /\ UNCHANGED <<req, sessions, changes, remote, OutputDir, peer>>

\* the handler's GetSessions RPC answers with the list as it is now; the
\* handler fails or classifies the session
HandleExecuteSession ==
    /\ pc = "handler_lookup"
    /\ \E rpcOK \in BOOLEAN :
        LET session == GetSession(rpcOK, req.arguments.sessionID.s)
        IN  /\ calls' = Answered(calls, GetSessionsCall(rpcOK, sessions))
            /\ IF IsFailure(session)
               THEN /\ Return(Failure("failed to get session info", [cause |-> session]))
                    /\ UNCHANGED pending
               ELSE /\ pending' = [isWindows |-> HandlerIsWindows(session)]
                    /\ pc' = "client_execute"
                    /\ UNCHANGED result
    /\ UNCHANGED <<req, sessions, changes, remote, OutputDir, peer>>

\* SliverClient.Execute from its entry to the GetSessions RPC that its
\* GetSession sends
ClientExecute ==
    /\ pc = "client_execute"
    /\ calls' = Append(calls, GetSessionsSent)
    /\ pc' = "client_lookup"
    /\ UNCHANGED <<req, pending, result, sessions, changes, remote, OutputDir, peer>>

\* the client's GetSessions RPC answers with the list as it is now; the
\* client fails or classifies the session
ClientExecuteSession ==
    /\ pc = "client_lookup"
    /\ \E rpcOK \in BOOLEAN :
        LET session == GetSession(rpcOK, req.arguments.sessionID.s)
        IN  /\ calls' = Answered(calls, GetSessionsCall(rpcOK, sessions))
            /\ IF IsFailure(session)
               THEN /\ Return(Failure("failed to get session info", [cause |-> session]))
                    /\ UNCHANGED pending
               ELSE /\ pending' = [isWindows |-> pending.isWindows,
                                   clientWindows |-> ClientIsWindows(session)]
                    /\ pc' = "primary"
                    /\ UNCHANGED result
    /\ UNCHANGED <<req, sessions, changes, remote, OutputDir, peer>>

\* the client sends the first Execute RPC
ExecutePrimary ==
    /\ pc = "primary"
    /\ calls' = Append(calls,
            ExecuteSent(PrimaryReq(pending.clientWindows, req.arguments.sessionID.s,
                                   req.arguments.command.s)))
    /\ pc' = "primary_rpc"
    /\ UNCHANGED <<req, pending, result, sessions, changes, remote, OutputDir, peer>>

\* mutant: a non-zero exit status of the first attempt also starts the second
ExecutePrimaryReturn_FallbackOnStatus ==
    /\ pc = "primary_rpc"
    /\ \E err \in ExecuteErrors({<<"t","i","m","e","o","u","t">>}) :
        /\ calls' = Answered(calls, ExecuteCall(calls[Len(calls)].Req, err # Nothing))
        /\ IF err # Nothing \/ remote.Status # 0
           THEN /\ pc' = "fallback"
                /\ pending' = [isWindows |-> pending.isWindows,
                               clientWindows |-> pending.clientWindows,
                               primaryErr |-> IF err # Nothing THEN err.text ELSE EmptyStr]
                /\ UNCHANGED result
           ELSE /\ Return(ExecuteResult(remote, pending.isWindows))
                /\ pending' = [isWindows |-> pending.isWindows,
                               clientWindows |-> pending.clientWindows,
                               execute |-> remote, strategyUsed |-> "primary"]
    /\ UNCHANGED <<req, sessions, changes, remote, OutputDir, peer>>

\* the first Execute RPC answers: on an RPC error the client goes on to the
\* second attempt, otherwise it returns and the handler formats the output
ExecutePrimaryReturn ==
    /\ pc = "primary_rpc"
    /\ \E err \in ExecuteErrors({<<"t","i","m","e","o","u","t">>}) :
        /\ calls' = Answered(calls, ExecuteCall(calls[Len(calls)].Req, err # Nothing))
        /\ IF err # Nothing
           THEN /\ pc' = "fallback"
                /\ pending' = [isWindows |-> pending.isWindows,
                               clientWindows |-> pending.clientWindows,
                               primaryErr |-> err.text]
                /\ UNCHANGED result
           ELSE /\ Return(ExecuteResult(remote, pending.isWindows))
                /\ pending' = [isWindows |-> pending.isWindows,
                               clientWindows |-> pending.clientWindows,
                               execute |-> remote, strategyUsed |-> "primary"]
    /\ UNCHANGED <<req, sessions, changes, remote, OutputDir, peer>>

\* the client sends the second Execute RPC
ExecuteFallback ==
    /\ pc = "fallback"
    /\ calls' = Append(calls,
            ExecuteSent(FallbackReq(pending.clientWindows, req.arguments.sessionID.s,
                                    req.arguments.command.s)))
    /\ pc' = "fallback_rpc"
    /\ UNCHANGED <<req, pending, result, sessions, changes, remote, OutputDir, peer>>

\* the second Execute RPC answers: the client fails with both errors, or it
\* returns and the handler formats the output
ExecuteFallbackReturn ==
    /\ pc = "fallback_rpc"
    /\ \E err \in ExecuteErrors({<<"e","o","f">>}) :
        /\ calls' = Answered(calls, ExecuteCall(calls[Len(calls)].Req, err # Nothing))
        /\ IF err # Nothing
           THEN /\ Return(BothFailed(pending.clientWindows, err.text))
                /\ pending' = [isWindows |-> pending.isWindows,
                               clientWindows |-> pending.clientWindows,
                               primaryErr |-> pending.primaryErr,
                               fallbackErr |-> err.text]
           ELSE /\ Return(ExecuteResult(remote, pending.isWindows))
                /\ pending' = [isWindows |-> pending.isWindows,
                               clientWindows |-> pending.clientWindows,
                               primaryErr |-> pending.primaryErr,
                               execute |-> remote, strategyUsed |-> "fallback"]
    /\ UNCHANGED <<req, sessions, changes, remote, OutputDir, peer>>

\* an execute request between the send of its first RPC and its return
ExecuteInFlight(tool, position) ==
    /\ tool = "execute"
    /\ position \in {"handler_lookup", "client_execute", "client_lookup", "primary",
                      "primary_rpc", "fallback", "fallback_rpc"}

\* the scheduler runs the other request's handler: the running request is
\* set aside with its locals and the other one continues where it was
Switch ==
    /\ peer # NoPeer
    /\ req' = peer.req
    /\ pc' = peer.pc
    /\ calls' = peer.calls
    /\ pending' = peer.pending
    /\ result' = peer.result
    /\ peer' = [req |-> req, pc |-> pc, calls |-> calls, pending |-> pending,
                result |-> result]
    /\ UNCHANGED <<sessions, changes, remote, OutputDir>>

\* the collaborator's session list changes while an execute request is
\* being served
SessionsChange ==
    /\ \/ ExecuteInFlight(req.tool, pc)
       \/ peer # NoPeer /\ ExecuteInFlight(peer.req.tool, peer.pc)
    /\ changes < MaxSessionChanges
    /\ changes' = changes + 1
    /\ sessions' \in SessionLists \ {sessions}
    /\ UNCHANGED <<req, pc, calls, pending, result, remote, OutputDir, peer>>

Next ==
    \/ HandleGenerateImplant
    \/ GenerateReturn
    \/ HandleSaveImplantProfile
    \/ SaveProfileReturn
    \/ HandleExecute
    \/ HandleExecuteSession
    \/ ClientExecute
    \/ ClientExecuteSession
    \/ ExecutePrimary
    \/ ExecutePrimaryReturn
    \/ ExecuteFallback
    \/ ExecuteFallbackReturn
    \/ SessionsChange
    \/ Switch

Spec == Init /\ [][Next]_vars


(***************************************************************************)
(* Properties                                                              *)
(***************************************************************************)

\* the run-command calls of the request, in the order they were issued
ExecuteCalls == SelectSeq(calls, LAMBDA c : c.op = "Execute")

\* the configurations handed to the build collaborator
SentConfigs == {calls[i].Config : i \in {j \in 1..Len(calls) : calls[j].op = "Generate"}}

\* a generate request whose config is an object has been through the handler
GenerateChecked ==
    req.tool = "generate" /\ pc # "start" /\ IsMap(req.arguments.config)

\* the six supported (os, arch) pairs
SixPairs ==
    { <<Windows, Amd64>>, <<Windows, I386>>, <<Linux, Amd64>>, <<Linux, I386>>,
      <<Darwin, Amd64>>, <<Darwin, Arm64>> }

\* the pair of the request after aliasing and defaulting is a supported one
PairSupported ==
    <<GenerateGOOS(req.arguments.config), GenerateGOARCH(req.arguments.config)>> \in SixPairs

NoNulNoCR(text) == \A i \in 1..Len(text) : text[i] \notin {NUL, CR}

\* the execute request returned captured output (or its absence), not the
\* text of the response's error field
ReturnedOutput ==
    /\ req.tool = "execute" /\ pc = "done" /\ result.ok
    /\ result.message # "Failed to execute command"


\* C1: a request that fails a local validation (an invalid-arguments error:
\* config not an object, unsupported platform, no C2 configuration, empty or
\* malformed endpoint URL, non-string sessionID or command, missing profile
\* name) returns with an empty log of RPC calls: no build, save-profile,
\* list-sessions or run-command call was issued.
C1_ValidationFailsBeforeAnyCall ==
    (pc = "done" /\ IsFailure(result) /\ result.kind = "InvalidArgs") => calls = <<>>

\* C1 witness: an execute request with a valid sessionID and a non-string
\* command has been rejected.
C1_Witness ==
    /\ req.tool = "execute" /\ pc = "done"
    /\ IsStr(req.arguments.sessionID)
    /\ result = InvalidArgs("command must be a string", NoDetail)
    /\ calls = <<>>

\* C2: a generate request whose pair is not one of the six fails at once,
\* without a build call, with the invalid-arguments unsupported-platform
\* error that names the pair and lists the six pairs; a request whose pair is
\* one of the six never gets that error.
C2_UnsupportedPlatformRejected ==
    GenerateChecked =>
        LET goos == GenerateGOOS(req.arguments.config)
            goarch == GenerateGOARCH(req.arguments.config)
            rejected == IsFailure(result) /\ result.code = "unsupported platform"
        IN  IF PairSupported
            THEN ~rejected
            ELSE /\ pc = "done"
                 /\ rejected
                 /\ result.kind = "InvalidArgs"
                 /\ result.detail.platform = goos \o <<"/">> \o goarch
                 /\ result.detail.supported = {p[1] \o <<"/">> \o p[2] : p \in SixPairs}
                 /\ calls = <<>>

\* C2 witness: darwin/386 has been rejected.
C2_Witness ==
    /\ GenerateChecked
    /\ GenerateGOOS(req.arguments.config) = Darwin
    /\ GenerateGOARCH(req.arguments.config) = I386
    /\ IsFailure(result) /\ result.code = "unsupported platform"

\* C3: at most two run-command calls per request; the first is cmd.exe or
\* /bin/bash; a second call exists only after a first call that returned an
\* RPC error and is powershell.exe after cmd.exe, /bin/sh after /bin/bash; a
\* first call that returned an RPC error is always followed by the second; a
\* first call that returned without an RPC error (whatever its exit status
\* and response error field) ends the request with one call.  While a call
\* is waiting for its answer no other call of the request is issued.
C3_FallbackIffPrimaryError ==
    req.tool = "execute" =>
        LET ex == ExecuteCalls
        IN  /\ Len(ex) <= 2
            /\ Len(ex) >= 1 => ex[1].Req.Path \in {"cmd.exe", "/bin/bash"}
            /\ Len(ex) = 2 =>
                   /\ ex[1].answered /\ ex[1].failed
                   /\ ex[2].Req.Path # ex[1].Req.Path
                   /\ ex[1].Req.Path = "cmd.exe" => ex[2].Req.Path = "powershell.exe"
                   /\ ex[1].Req.Path = "/bin/bash" =>
                          /\ ex[2].Req.Path = "/bin/sh"
                          /\ ex[2].Req.Args[1] = "-c"
            /\ (Len(ex) >= 1 /\ ex[1].failed /\ pc = "done") => Len(ex) = 2
            /\ (Len(ex) >= 1 /\ ex[1].answered /\ ~ex[1].failed) =>
                   (pc = "done" /\ Len(ex) = 1)

\* C3 witness: a primary call returned without an RPC error but with exit
\* status 1 and a response error, and the request ended.
C3_Witness ==
    /\ req.tool = "execute" /\ pc = "done"
    /\ Len(ExecuteCalls) = 1 /\ ~ExecuteCalls[1].failed
    /\ remote.Status = 1 /\ remote.Err # EmptyStr

\* C4: a finished request with two run-command calls: when the second
\* returned an error too, the result is a failure carrying that last error
\* and naming both shells of the attempted platform; when the second
\* succeeded, the result is a success made from the fallback's answer.
C4_BothFailOrFallbackResult ==
    (req.tool = "execute" /\ pc = "done" /\ Len(ExecuteCalls) = 2) =>
        IF ExecuteCalls[2].failed
        THEN /\ IsFailure(result)
             /\ result.detail.cause = pending.fallbackErr
             /\ pending.fallbackErr # pending.primaryErr
             /\ result.detail.shells =
                    IF ExecuteCalls[1].Req.Path = "cmd.exe"
                    THEN <<"cmd.exe", "powershell.exe">> ELSE <<"bash", "sh">>
        ELSE /\ result.ok
             /\ pending.strategyUsed = "fallback"
             /\ pending.execute = remote
             /\ remote.Err = EmptyStr /\ remote.Stdout # EmptyStr /\ ~pending.isWindows
                    => result.text = remote.Stdout

\* C4 witness: both calls to a windows session failed.
C4_Witness ==
    /\ req.tool = "execute" /\ pc = "done" /\ Len(ExecuteCalls) = 2
    /\ ExecuteCalls[2].failed /\ ExecuteCalls[2].Req.Path = "powershell.exe"
    /\ IsFailure(result)

\* C5: once a list-sessions call of an execute request was answered with an
\* error or with a list without the requested ID, the request is over with a failure, that
\* call is the last call of the request, and no run-command call was issued.
C5_UnresolvedSessionIsTerminal ==
    req.tool = "execute" =>
        \A i \in 1..Len(calls) :
            ( /\ calls[i].op = "GetSessions"
              /\ calls[i].answered
              /\ \/ calls[i].failed
                 \/ \A k \in 1..Len(calls[i].Sessions) :
                        calls[i].Sessions[k].ID # req.arguments.sessionID.s )
            => /\ i = Len(calls)
               /\ ExecuteCalls = <<>>
               /\ pc = "done"
               /\ IsFailure(result)

\* C5 witness: the handler resolved the session, the session then vanished
\* from a non-empty list, and the client's lookup did not find it.
C5_Witness ==
    /\ req.tool = "execute" /\ pc = "done" /\ Len(calls) = 2
    /\ calls[2].answered /\ ~calls[2].failed /\ Len(calls[2].Sessions) > 0
    /\ \A k \in 1..Len(calls[2].Sessions) :
           calls[2].Sessions[k].ID # req.arguments.sessionID.s
    /\ IsFailure(result)

\* C6 as stated: every output text a successful execute request returns, on
\* the windows path and on the posix path alike, has no NUL and no CR.
C6_AllOutputNormalized ==
    ReturnedOutput => NoNulNoCR(result.text)

\* C6 amended: the output text returned for a session the handler classified
\* as windows has no NUL and no CR (the posix path returns the captured
\* bytes unchanged).
C6_WindowsOutputNormalized ==
    (ReturnedOutput /\ pending.isWindows) => NoNulNoCR(result.text)

\* C6 witness: a windows session's output held NUL and CR and a non-empty
\* text came back.
C6_Witness ==
    /\ ReturnedOutput /\ pending.isWindows
    /\ \E i \in 1..Len(remote.Stdout) : remote.Stdout[i] = NUL
    /\ \E i \in 1..Len(remote.Stdout) : remote.Stdout[i] = CR
    /\ result.text # EmptyStr

\* the first shape of the config that matches, in the order of C7
FirstShape(configMap) ==
    IF IsLst(configMap.c2) /\ Len(configMap.c2.l) > 0 THEN "c2list"
    ELSE IF IsLst(configMap.mtlsc2) /\ Len(configMap.mtlsc2.l) > 0 THEN "mtlsc2"
    ELSE IF IsLst(configMap.httpc2) /\ Len(configMap.httpc2.l) > 0 THEN "httpc2"
    ELSE IF IsLst(configMap.httpsc2) /\ Len(configMap.httpsc2.l) > 0 THEN "httpsc2"
    ELSE IF IsStr(configMap.c2) /\ configMap.c2.s # EmptyStr THEN "c2string"
    ELSE "none"

\* endpoint e is made from the element of list l at the position e.Priority
FromC2List(l, e) ==
    /\ e.Priority + 1 \in 1..Len(l)
    /\ l[e.Priority + 1].t = "obj"
    /\ IsStr(l[e.Priority + 1].url)
    /\ e.URL = l[e.Priority + 1].url.s

FromServerList(l, prefix, e) ==
    /\ e.Priority + 1 \in 1..Len(l)
    /\ IsStr(l[e.Priority + 1])
    /\ e.URL \in {l[e.Priority + 1].s, prefix \o l[e.Priority + 1].s}

\* the positions of list l that make an endpoint
UsablePositions(l, shape) ==
    {i \in 1..Len(l) : IF shape = "c2list" THEN l[i].t = "obj" ELSE IsStr(l[i])}

\* C7: the endpoints of every configuration handed to the build come from
\* one shape, the first that matches in the order c2 list, mtlsc2, httpc2,
\* httpsc2, c2 string: one endpoint per usable element of that shape, each
\* made from the element at its priority. In particular with a non-empty c2
\* list every endpoint comes from the c2 list, whatever mtlsc2 holds.
C7_FirstMatchingShapeOnly ==
    req.tool = "generate" =>
        \A config \in SentConfigs :
            LET configMap == req.arguments.config
                shape == FirstShape(configMap)
                C2 == config.C2
                l == CASE shape = "c2list" -> configMap.c2.l
                       [] shape = "mtlsc2" -> configMap.mtlsc2.l
                       [] shape = "httpc2" -> configMap.httpc2.l
                       [] shape = "httpsc2" -> configMap.httpsc2.l
                       [] OTHER -> <<>>
            IN  /\ shape # "none"
                /\ shape = "c2string" => C2 = <<ImplantC2(0, configMap.c2.s)>>
                /\ shape # "c2string" =>
                       /\ {C2[k].Priority + 1 : k \in 1..Len(C2)} = UsablePositions(l, shape)
                       /\ Len(C2) = Cardinality(UsablePositions(l, shape))
                       /\ \A k \in 1..Len(C2) :
                              CASE shape = "c2list" -> FromC2List(l, C2[k])
                                [] shape = "mtlsc2" -> FromServerList(l, MtlsPrefix, C2[k])
                                [] shape = "httpc2" -> FromServerList(l, HttpPrefix, C2[k])
                                [] shape = "httpsc2" -> FromServerList(l, HttpsPrefix, C2[k])

\* C7 witness: a config with a c2 list and an mtlsc2 list that holds a
\* usable server went to the build.
C7_Witness ==
    /\ req.tool = "generate" /\ SentConfigs # {}
    /\ IsLst(req.arguments.config.c2) /\ Len(req.arguments.config.c2.l) > 0
    /\ IsLst(req.arguments.config.mtlsc2)
    /\ \E i \in 1..Len(req.arguments.config.mtlsc2.l) : IsStr(req.arguments.config.mtlsc2.l[i])

\* the 'no C2 configuration found' error, naming the accepted keys
NoC2Error ==
    InvalidArgs("no C2 configuration found", [fields |-> {"mtlsc2", "httpc2", "httpsc2", "c2"}])

\* C8 as stated: a generate request (past the platform check) whose config
\* yields no endpoint fails with the 'no C2 configuration found' error and no
\* build call.
C8_NoEndpointIsNoC2Error ==
    (GenerateChecked /\ PairSupported /\ ResolveC2(req.arguments.config) = <<>>) =>
        (pc = "done" /\ calls = <<>> /\ result = NoC2Error)

\* C8 amended: such a request fails without a build call; the error is 'no C2
\* configuration found', except when the resolver took a non-empty mtlsc2
\* list with no string in it: then it is 'invalid mtlsc2 configuration'.
C8_NoEndpointFails ==
    (GenerateChecked /\ PairSupported /\ ResolveC2(req.arguments.config) = <<>>) =>
        LET configMap == req.arguments.config
            badMtls == /\ ~(IsLst(configMap.c2) /\ Len(configMap.c2.l) > 0)
                       /\ IsLst(configMap.mtlsc2) /\ Len(configMap.mtlsc2.l) > 0
        IN  /\ pc = "done"
            /\ calls = <<>>
            /\ result = IF badMtls
                        THEN InvalidArgs("invalid mtlsc2 configuration", NoDetail)
                        ELSE NoC2Error

\* C8 witness: a c2 list without any object in it was rejected with the
\* 'no C2 configuration found' error.
C8_Witness ==
    /\ GenerateChecked /\ PairSupported
    /\ IsLst(req.arguments.config.c2) /\ Len(req.arguments.config.c2.l) > 0
    /\ ResolveC2(req.arguments.config) = <<>>
    /\ result = NoC2Error

SupportedScheme(url) ==
    HasPrefix(url, MtlsPrefix) \/ HasPrefix(url, HttpPrefix) \/ HasPrefix(url, HttpsPrefix)

\* C9: every endpoint of a configuration handed to the build has a
\* non-empty URL with one of the three schemes, the scheme of the key for the
\* mtlsc2, httpc2 and httpsc2 shapes; a request with an empty endpoint URL or
\* a URL of another scheme fails without a build call, and when the URL of
\* another scheme is the first invalid endpoint the error is the protocol
\* error with its index, URL and the three schemes.
C9_SentEndpointsHaveSupportedScheme ==
    (GenerateChecked /\ PairSupported) =>
        LET C2 == ResolveC2(req.arguments.config)
            shape == FirstShape(req.arguments.config)
        IN  /\ \A config \in SentConfigs : \A k \in 1..Len(config.C2) :
                   LET url == config.C2[k].URL
                   IN  /\ url # EmptyStr
                       /\ SupportedScheme(url)
                       /\ shape = "mtlsc2" => HasPrefix(url, MtlsPrefix)
                       /\ shape = "httpc2" => HasPrefix(url, HttpPrefix)
                       /\ shape = "httpsc2" => HasPrefix(url, HttpsPrefix)
            /\ \A k \in 1..Len(C2) :
                   (C2[k].URL = EmptyStr \/ ~SupportedScheme(C2[k].URL)) =>
                       /\ pc = "done" /\ calls = <<>>
                       /\ IsFailure(result) /\ result.kind = "InvalidArgs"
                       /\ (\A j \in 1..(k - 1) : C2URLError(C2[j], j - 1) = NoDetail) =>
                              result =
                                  IF C2[k].URL = EmptyStr
                                  THEN InvalidArgs("empty C2 URL detected", NoDetail)
                                  ELSE InvalidArgs("invalid URL protocol",
                                           [index |-> k - 1, url |-> C2[k].URL,
                                            supported |-> {MtlsPrefix, HttpPrefix, HttpsPrefix}])

\* C9 witness: the second endpoint of a c2 list had another scheme and the
\* request failed with the protocol error for index 1.
C9_Witness ==
    /\ GenerateChecked /\ PairSupported
    /\ IsFailure(result) /\ result.code = "invalid URL protocol"
    /\ result.detail.index = 1

\* the text after mtls:// is a bare non-empty host, or one host:port pair
\* with a non-empty host
MtlsWellFormed(url) ==
    LET rest == TrimPrefix(url, MtlsPrefix)
        colons == Count(rest, ":")
        host == IF colons = 0 THEN rest ELSE Split(rest, ":")[1]
    IN  colons <= 1 /\ host # EmptyStr

\* C10 as stated: an mtls:// endpoint that validation reaches is accepted
\* exactly when it is well formed, and fails with the format error citing its
\* index otherwise; every mtls endpoint handed to the build has a non-empty
\* host.
C10_MtlsHostOrHostPort ==
    (GenerateChecked /\ PairSupported) =>
        LET C2 == ResolveC2(req.arguments.config)
        IN  /\ \A k \in 1..Len(C2) :
                   ( /\ HasPrefix(C2[k].URL, MtlsPrefix)
                     /\ \A j \in 1..(k - 1) : C2URLError(C2[j], j - 1) = NoDetail )
                   => IF MtlsWellFormed(C2[k].URL)
                      THEN ~(IsFailure(result) /\ result.code = "invalid MTLS URL format"
                                 /\ result.detail.index = k - 1)
                      ELSE /\ IsFailure(result)
                           /\ result.code = "invalid MTLS URL format"
                           /\ result.detail.index = k - 1
            /\ \A config \in SentConfigs : \A k \in 1..Len(config.C2) :
                   HasPrefix(config.C2[k].URL, MtlsPrefix) => MtlsWellFormed(config.C2[k].URL)

\* the number of '/' characters of a URL
Slashes(url) == Cardinality({i \in 1..Len(url) : url[i] = "/"})

IsHttpURL(url) == HasPrefix(url, HttpPrefix) \/ HasPrefix(url, HttpsPrefix)

\* C11: the first endpoint (in index order) that is not valid decides the
\* outcome; when it is an http:// or https:// URL with fewer than three '/'
\* the request fails with the HTTP(S) format error citing that index and
\* URL; an http:// or https:// URL with three or more '/' is never the
\* endpoint an error is reported for, and when every endpoint is such a URL
\* the request passes URL validation.
C11_HttpNeedsThreeSlashes ==
    (GenerateChecked /\ PairSupported) =>
        LET C2 == ResolveC2(req.arguments.config)
        IN  /\ \A k \in 1..Len(C2) :
                   ( /\ IsHttpURL(C2[k].URL)
                     /\ \A j \in 1..(k - 1) : C2URLError(C2[j], j - 1) = NoDetail )
                   => IF Slashes(C2[k].URL) < 3
                      THEN /\ pc = "done" /\ calls = <<>>
                           /\ result = InvalidArgs("invalid HTTP(S) URL format",
                                                   [index |-> k - 1, url |-> C2[k].URL])
                      ELSE ~( /\ IsFailure(result) /\ result.kind = "InvalidArgs"
                              /\ "index" \in DOMAIN result.detail
                              /\ result.detail.index = k - 1 )
            /\ ( /\ Len(C2) > 0
                 /\ \A k \in 1..Len(C2) : IsHttpURL(C2[k].URL) /\ Slashes(C2[k].URL) >= 3 )
               => ~(IsFailure(result) /\ result.kind = "InvalidArgs")

\* C11 witness: the first endpoint passed (three slashes), the second had
\* two slashes and index 1 was reported.
C11_Witness ==
    /\ GenerateChecked /\ PairSupported
    /\ IsFailure(result) /\ result.code = "invalid HTTP(S) URL format"
    /\ result.detail.index = 1
    /\ IsHttpURL(ResolveC2(req.arguments.config)[1].URL)

\* a bare host name: non-empty, no scheme, no port, no path
BareHost(s) == s # EmptyStr /\ \A i \in 1..Len(s) : s[i] \notin {":", "/"}

\* the list under key is the only C2 input and holds bare host names only
OnlyBareHostsUnder(configMap, key) ==
    /\ \A other \in {"c2", "mtlsc2", "httpc2", "httpsc2"} \ {key} : configMap[other] = Absent
    /\ IsLst(configMap[key]) /\ Len(configMap[key].l) > 0
    /\ \A i \in 1..Len(configMap[key].l) :
           IsStr(configMap[key].l[i]) /\ BareHost(configMap[key].l[i].s)

\* the endpoints C12 expects of a list of bare hosts
PrefixedHosts(l, prefix) == [i \in 1..Len(l) |-> ImplantC2(i - 1, prefix \o l[i].s)]

\* C12 as stated: a generate request (supported platform, no cross compiler
\* needed) whose only C2 input is an httpc2 or httpsc2 list of bare host
\* names reaches the build with the endpoints http://<host> (https://<host>),
\* priority = list index.
C12_BareHttpHostsAccepted ==
    (GenerateChecked /\ PairSupported /\ GenerateGOOS(req.arguments.config) # Windows) =>
        LET configMap == req.arguments.config
        IN  /\ OnlyBareHostsUnder(configMap, "httpc2") =>
                   \E config \in SentConfigs :
                       config.C2 = PrefixedHosts(configMap.httpc2.l, HttpPrefix)
            /\ OnlyBareHostsUnder(configMap, "httpsc2") =>
                   \E config \in SentConfigs :
                       config.C2 = PrefixedHosts(configMap.httpsc2.l, HttpsPrefix)

\* the resolver takes the mtlsc2 branch and the list is not empty
MtlsListTaken(configMap) ==
    /\ ~(IsLst(configMap.c2) /\ Len(configMap.c2.l) > 0)
    /\ IsLst(configMap.mtlsc2) /\ Len(configMap.mtlsc2.l) > 0

StringPositions(l) == {i \in 1..Len(l) : IsStr(l[i])}

\* some scheme is present in the text
CarriesScheme(s) == Contains(s, <<":", "/", "/">>)

\* C13 as stated: under the mtlsc2 shape the endpoints handed to the build
\* are the string elements, prefixed with mtls:// when no scheme is present
\* and unchanged when the element carries a scheme; a non-empty list without
\* a string fails.
C13_PrefixedUnlessSchemePresent ==
    (GenerateChecked /\ PairSupported /\ MtlsListTaken(req.arguments.config)) =>
        LET l == req.arguments.config.mtlsc2.l
        IN  /\ StringPositions(l) = {} => (pc = "done" /\ IsFailure(result) /\ calls = <<>>)
            /\ \A config \in SentConfigs :
                   /\ Len(config.C2) = Cardinality(StringPositions(l))
                   /\ \A k \in 1..Len(config.C2) :
                          LET i == config.C2[k].Priority + 1
                          IN  /\ i \in StringPositions(l)
                              /\ config.C2[k].URL =
                                     IF CarriesScheme(l[i].s) THEN l[i].s
                                     ELSE MtlsPrefix \o l[i].s

\* C13 amended: the element is left unchanged only when it starts with
\* mtls:// itself; every other string element, also one that carries another
\* scheme, is prefixed with mtls://. mtlsc2: ["10.0.0.1"] alone reaches the
\* build as the one endpoint mtls://10.0.0.1 with priority 0; a non-empty
\* list without a string fails without a build call.
C13_PrefixedUnlessMtlsPresent ==
    (GenerateChecked /\ PairSupported /\ MtlsListTaken(req.arguments.config)) =>
        LET l == req.arguments.config.mtlsc2.l
        IN  /\ StringPositions(l) = {} => (pc = "done" /\ IsFailure(result) /\ calls = <<>>)
            /\ \A config \in SentConfigs :
                   /\ Len(config.C2) = Cardinality(StringPositions(l))
                   /\ \A k \in 1..Len(config.C2) :
                          LET i == config.C2[k].Priority + 1
                          IN  /\ i \in StringPositions(l)
                              /\ config.C2[k].URL =
                                     IF HasPrefix(l[i].s, MtlsPrefix) THEN l[i].s
                                     ELSE MtlsPrefix \o l[i].s
            /\ (l = <<Str(TenDotOne)>> /\ GenerateGOOS(req.arguments.config) # Windows) =>
                   \E config \in SentConfigs :
                       config.C2 = <<ImplantC2(0, MtlsPrefix \o TenDotOne)>>

\* C13 witness: an mtlsc2 list with an element that carries the http scheme
\* and one that carries mtls:// reached the build.
C13_Witness ==
    /\ GenerateChecked /\ PairSupported /\ MtlsListTaken(req.arguments.config)
    /\ \E config \in SentConfigs :
           /\ Len(config.C2) = 2
           /\ config.C2[1].URL = UrlMtlsA
           /\ config.C2[2].URL = MtlsPrefix \o UrlHttpA

\* httpc2 is an empty list and no earlier shape (c2 list, mtlsc2) is there
EmptyHttpListReached(configMap) ==
    /\ configMap.httpc2 = Lst(<<>>)
    /\ ~(IsLst(configMap.c2) /\ Len(configMap.c2.l) > 0)
    /\ ~IsLst(configMap.mtlsc2)

\* C14: with httpc2 an empty list (and no earlier shape) no configuration
\* without endpoints goes to the build, and the next shapes are used: a
\* non-empty httpsc2 list of well-formed hosts reaches the build as https
\* endpoints; without such a list a well-formed c2 string reaches the build
\* as the single endpoint.
C14_EmptyHttpListFallsThrough ==
    ( /\ GenerateChecked /\ PairSupported
      /\ GenerateGOOS(req.arguments.config) # Windows
      /\ EmptyHttpListReached(req.arguments.config) ) =>
        LET configMap == req.arguments.config
            httpsTaken == IsLst(configMap.httpsc2) /\ Len(configMap.httpsc2.l) > 0
        IN  /\ \A config \in SentConfigs : Len(config.C2) > 0
            /\ ( /\ httpsTaken
                 /\ \A i \in 1..Len(configMap.httpsc2.l) :
                        /\ IsStr(configMap.httpsc2.l[i])
                        /\ ~HasPrefix(configMap.httpsc2.l[i].s, HttpsPrefix)
                        /\ Slashes(configMap.httpsc2.l[i].s) >= 1 )
               => \E config \in SentConfigs :
                      config.C2 = PrefixedHosts(configMap.httpsc2.l, HttpsPrefix)
            /\ ( /\ ~httpsTaken
                 /\ IsStr(configMap.c2)
                 /\ \/ IsHttpURL(configMap.c2.s) /\ Slashes(configMap.c2.s) >= 3
                    \/ /\ HasPrefix(configMap.c2.s, MtlsPrefix)
                       /\ BareHost(TrimPrefix(configMap.c2.s, MtlsPrefix)) )
               => \E config \in SentConfigs : config.C2 = <<ImplantC2(0, configMap.c2.s)>>

\* C14 witness: httpc2 was [], httpsc2 held a host and its endpoint reached
\* the build.
C14_Witness ==
    /\ GenerateChecked /\ EmptyHttpListReached(req.arguments.config)
    /\ IsLst(req.arguments.config.httpsc2)
    /\ \E config \in SentConfigs : config.C2 = <<ImplantC2(0, HttpsPrefix \o HostSlash)>>

\* the fall-through reached the c2 string
C14_StringReached ==
    /\ GenerateChecked /\ EmptyHttpListReached(req.arguments.config)
    /\ req.arguments.config.httpsc2 = Lst(<<>>)
    /\ \E config \in SentConfigs : config.C2 = <<ImplantC2(0, UrlMtlsA)>>

\* the position in l of the k-th element that makes an endpoint
KthUsable(l, shape, k) ==
    CHOOSE i \in UsablePositions(l, shape) :
        Cardinality({j \in UsablePositions(l, shape) : j < i}) = k - 1

\* C15: in every configuration handed to the build the k-th endpoint has
\* as priority the 0-based position, in the input list of the accepted
\* shape, of the k-th element that makes an endpoint (0 for the c2 string);
\* so priorities increase strictly along the sequence and skipped elements
\* leave gaps.
C15_PriorityIsInputIndex ==
    req.tool = "generate" =>
        \A config \in SentConfigs :
            LET configMap == req.arguments.config
                shape == FirstShape(configMap)
                C2 == config.C2
                l == CASE shape = "c2list" -> configMap.c2.l
                       [] shape = "mtlsc2" -> configMap.mtlsc2.l
                       [] shape = "httpc2" -> configMap.httpc2.l
                       [] shape = "httpsc2" -> configMap.httpsc2.l
                       [] OTHER -> <<>>
            IN  /\ \A k \in 1..(Len(C2) - 1) : C2[k].Priority < C2[k + 1].Priority
                /\ shape = "c2string" => (Len(C2) = 1 /\ C2[1].Priority = 0)
                /\ shape # "c2string" =>
                       \A k \in 1..Len(C2) :
                           /\ k <= Cardinality(UsablePositions(l, shape))
                           /\ C2[k].Priority = KthUsable(l, shape, k) - 1

\* C15 witness: the middle element of a c2 list was skipped and the
\* endpoints that reached the build have the priorities 0 and 2.
C15_Witness ==
    /\ req.tool = "generate"
    /\ \E config \in SentConfigs :
           /\ Len(config.C2) = 2
           /\ config.C2[1].Priority = 0
           /\ config.C2[2].Priority = 2

\* C16 as stated: every configuration handed to the collaborator, by the
\* build call of generate or by the save call of save-profile, holds at least
\* one endpoint.
C16_AtLeastOneEndpoint ==
    \A i \in 1..Len(calls) :
        /\ calls[i].op = "Generate" => Len(calls[i].Config.C2) >= 1
        /\ calls[i].op = "SaveImplantProfile" => Len(calls[i].Profile.Config.C2) >= 1

\* C17 as stated: a profile is handed to the collaborator only for a config
\* map that the generate flow accepts (all its local checks pass, the cross
\* compilers being installed), and then with the platform, format and
\* ordered endpoint list that generate composes for that map.
C17_ProfileComposedAsGenerate ==
    req.tool = "save_profile" =>
        \A i \in 1..Len(calls) :
            calls[i].op = "SaveImplantProfile" =>
                LET configMap == req.arguments.config
                    config == calls[i].Profile.Config
                    generated == GenerateImplantConfig(configMap)
                IN  /\ GenerateLocalError(req.arguments, {MingwAmd64, MingwI386}) = NoDetail
                    /\ config.GOOS = generated.GOOS
                    /\ config.GOARCH = generated.GOARCH
                    /\ config.Format = generated.Format
                    /\ config.C2 = generated.C2

\* the format and the format flags of a composed configuration are those of
\* a plain executable
PlainExecutable(config) ==
    /\ config.Format = <<"E","X","E","C","U","T","A","B","L","E">>
    /\ ~config.IsSharedLib /\ ~config.IsShellcode /\ ~config.IsService

\* C18: every configuration handed to the collaborator by generate or
\* save-profile is a plain executable, whatever format was requested; and a
\* request that is valid apart from its format value (generate: linux with
\* the c2 string mtls://a; save-profile: a name and a config object) is
\* handed on.
C18_FormatForcedExecutable ==
    /\ \A i \in 1..Len(calls) :
           /\ calls[i].op = "Generate" => PlainExecutable(calls[i].Config)
           /\ calls[i].op = "SaveImplantProfile" => PlainExecutable(calls[i].Profile.Config)
    /\ ( /\ GenerateChecked
         /\ req.arguments.config.format # Absent
         /\ GenerateGOOS(req.arguments.config) = Linux
         /\ GenerateGOARCH(req.arguments.config) = Amd64
         /\ req.arguments.config.c2 = Str(UrlMtlsA) )
       => SentConfigs # {}
    /\ ( /\ req.tool = "save_profile" /\ pc # "start"
         /\ IsStr(req.arguments.name) /\ req.arguments.name.s # EmptyStr
         /\ IsMap(req.arguments.config) )
       => \E i \in 1..Len(calls) : calls[i].op = "SaveImplantProfile"

\* C18 witness: a generate request that asked for shellcode reached the
\* build.
C18_Witness ==
    /\ GenerateChecked
    /\ req.arguments.config.format = Str(<<"s","h","e","l","l","c","o","d","e">>)
    /\ SentConfigs # {}

\* a save-profile request that asked for a shared library was handed on
C18_ProfileReached ==
    /\ req.tool = "save_profile"
    /\ IsMap(req.arguments.config)
    /\ req.arguments.config.format = Str(<<"S","h","a","r","e","d","L","i","b">>)
    /\ Len(calls) = 1

\* the build call of a generate request came back with an RPC error
BuildFailed ==
    /\ req.tool = "generate" /\ pc = "done"
    /\ "answer" \in DOMAIN pending
    /\ pending.answer # Nothing
    /\ pending.answer.err

\* the category C19 expects for a raw error text: the first marker group
\* that matches, in the order tool chain, build, connectivity
ExpectedCategory(raw) ==
    IF Contains(raw, <<"C","C">>) \/ Contains(raw, <<"g","c","c">>)
       \/ Contains(raw, <<"m","i","n","g","w">>)
    THEN "cross-compiler"
    ELSE IF Contains(raw, <<"g","o"," ","b","u","i","l","d">>)
            \/ Contains(raw, <<"e","x","i","t"," ","s","t","a","t","u","s">>)
    THEN "build"
    ELSE IF Contains(raw, <<"c","o","n","n","e","c","t">>)
            \/ Contains(raw, <<"n","e","t","w","o","r","k">>)
    THEN "network"
    ELSE "generic"

\* the category the error returned to the caller names: the handler's own
\* label, or the label in the client's text that the handler passes on
SurfacedCategory(r) ==
    CASE r.code = "cross-compiler error" -> "cross-compiler"
      [] r.code = "build failed" -> "build"
      [] r.code = "network error while building implant" -> "network"
      [] r.code = "unsupported platform reported by build" -> "platform"
      [] r.code = "failed to generate implant" ->
            IF Contains(r.detail.message,
                        <<"c","r","o","s","s","-","c","o","m","p","i","l","e","r"," ",
                          "e","r","r","o","r">>)
            THEN "cross-compiler"
            ELSE IF Contains(r.detail.message,
                             <<"b","u","i","l","d"," ","p","r","o","c","e","s","s"," ",
                               "e","r","r","o","r">>)
            THEN "build"
            ELSE IF Contains(r.detail.message,
                             <<"n","e","t","w","o","r","k"," ","e","r","r","o","r">>)
            THEN "network"
            ELSE "generic"
      [] OTHER -> "none"

\* C19 as stated: the error returned for a failed build call names the
\* category of the first marker group that matches the raw error text
\* (tool chain, then build / exit status, then connectivity, else generic),
\* and a generic error carries the raw text.
C19_ClassificationOrdered ==
    BuildFailed =>
        /\ IsFailure(result)
        /\ SurfacedCategory(result) = ExpectedCategory(pending.answer.text)
        /\ ExpectedCategory(pending.answer.text) = "generic" =>
               Contains(result.detail.message, pending.answer.text)

\* a run-command attempt of the request succeeded and brought back nothing:
\* no stdout, no stderr, no response error
SucceededWithoutOutput ==
    /\ req.tool = "execute" /\ pc = "done"
    /\ Len(ExecuteCalls) >= 1
    /\ ~ExecuteCalls[Len(ExecuteCalls)].failed
    /\ remote.Stdout = EmptyStr /\ remote.Stderr = EmptyStr /\ remote.Err = EmptyStr

\* the OS of the first listed session with the requested ID is "windows",
\* in any letter case
SessionOSIsWindows ==
    \E i \in 1..Len(sessions) :
        /\ sessions[i].ID = req.arguments.sessionID.s
        /\ \A j \in 1..(i - 1) : sessions[j].ID # req.arguments.sessionID.s
        /\ ToLower(sessions[i].OS) = Windows

\* C20: after a successful attempt without any output the request returns
\* a success whose payload is the explanatory no-output message, the
\* Windows one exactly when the handler classified the session as windows
\* (which, the session list being unchanged during the request, is when the
\* session's OS is windows); never a failure, never the output message with
\* an empty text.
C20_NoOutputMessage ==
    SucceededWithoutOutput =>
        /\ result.ok
        /\ result.message = IF pending.isWindows THEN "no output (Windows)" ELSE "no output"
        /\ changes = 0 => (pending.isWindows <=> SessionOSIsWindows)

\* C20 witness: cmd.exe ran on a windows session without output and the
\* Windows message came back.
C20_Witness ==
    /\ SucceededWithoutOutput
    /\ ExecuteCalls[1].Req.Path = "cmd.exe"
    /\ result.ok /\ result.message = "no output (Windows)"

\* the captured output the handler works on: stdout, else stderr
CapturedOutput == IF Len(remote.Stdout) = 0 THEN remote.Stderr ELSE remote.Stdout

\* a windows session's captured output came back as output text
WindowsOutputReturned ==
    /\ ReturnedOutput /\ pending.isWindows
    /\ CapturedOutput # EmptyStr

\* one pass over a text without NUL: CRLF and a bare CR become one LF each
RECURSIVE UnifyLineEnds(_, _)
UnifyLineEnds(s, i) ==
    IF i > Len(s) THEN <<>>
    ELSE IF s[i] = CR /\ i < Len(s) /\ s[i + 1] = LF THEN <<LF>> \o UnifyLineEnds(s, i + 2)
    ELSE IF s[i] = CR THEN <<LF>> \o UnifyLineEnds(s, i + 1)
    ELSE <<s[i]>> \o UnifyLineEnds(s, i + 1)

\* text without its leading and trailing white space
Trimmed(s) ==
    LET keep == {i \in 1..Len(s) : ~IsSpace(s[i])}
    IN  IF keep = {} THEN <<>>
        ELSE LET lo == CHOOSE i \in keep : \A j \in keep : i <= j
                 hi == CHOOSE i \in keep : \A j \in keep : i >= j
             IN  SubSeq(s, lo, hi)

\* the normalization C21 describes
ReferenceNormalize(output) ==
    Trimmed(UnifyLineEnds(SelectSeq(output, LAMBDA c : c # NUL), 1))

\* C21 as stated: the output text returned for a windows session is the
\* captured output with every NUL removed, every CRLF and every bare CR
\* replaced by one LF, and leading and trailing white space trimmed.
C21_WindowsOutputIsReference ==
    WindowsOutputReturned => result.text = ReferenceNormalize(CapturedOutput)

\* the documented example comes out as documented
C21_ExampleNormalized ==
    ( /\ WindowsOutputReturned
      /\ CapturedOutput = <<"l","i","n","e","1",CR,LF,NUL,"l","i","n","e","2",CR>> )
    => result.text = <<"l","i","n","e","1",LF,"l","i","n","e","2">>

\* the documented example was run
C21_ExampleReached ==
    /\ WindowsOutputReturned
    /\ CapturedOutput = <<"l","i","n","e","1",CR,LF,NUL,"l","i","n","e","2",CR>>

\* the session list the client's own lookup got (the second lookup of the
\* request), and the session it resolved
ClientLookup == calls[2].Sessions
ClientSession ==
    LET hits == {i \in 1..Len(ClientLookup) : ClientLookup[i].ID = req.arguments.sessionID.s}
    IN  ClientLookup[CHOOSE i \in hits : \A j \in hits : i <= j]

\* "windows" in any letter case, letter by letter; the upper-case forms of
\* i are I and the dotted capital U+0130, which lower-cases to i
SpellsWindows(os) ==
    /\ Len(os) = 7
    /\ os[1] \in {"w", "W"} /\ os[2] \in {"i", "I", "U0130"} /\ os[3] \in {"n", "N"}
    /\ os[4] \in {"d", "D"} /\ os[5] \in {"o", "O"} /\ os[6] \in {"w", "W"}
    /\ os[7] \in {"s", "S"}

\* C22: the client classifies the session as windows exactly when the OS
\* string of the session it looked up is "windows" in any letter case, and
\* as posix otherwise (an empty OS included).  The first run-command call is
\* cmd.exe with /D /u /V:OFF /C and the command as one last argument for
\* windows, /bin/bash -c and the command for posix; the command arrives
\* unchanged.
C22_PrimaryStrategyByOS ==
    ExecuteCalls # <<>> =>
        LET first == ExecuteCalls[1].Req
            command == req.arguments.command.s
        IN  /\ first.SessionID = req.arguments.sessionID.s
            /\ IF SpellsWindows(ClientSession.OS)
               THEN /\ first.Path = "cmd.exe"
                    /\ first.Args = <<"/D", "/u", "/V:OFF", "/C", command>>
               ELSE /\ first.Path = "/bin/bash"
                    /\ first.Args = <<"-c", command>>

\* a session whose OS is spelled "Windows" got the cmd.exe call with a
\* command that holds spaces and a pipe
C22_Witness ==
    /\ ExecuteCalls # <<>>
    /\ ClientSession.OS = <<"W","i","n","d","o","w","s">>
    /\ ExecuteCalls[1].Req.Path = "cmd.exe"
    /\ Contains(req.arguments.command.s, <<"|">>)

\* a session without an OS got the /bin/bash call
C22_EmptyOSReached ==
    /\ ExecuteCalls # <<>>
    /\ ClientSession.OS = EmptyStr
    /\ ExecuteCalls[1].Req.Path = "/bin/bash"

\* the reference mapping of C23, as a table of (alias, canonical value)
OSAliasTable ==
    { <<"mac", Darwin>>, <<"macos", Darwin>>, <<"osx", Darwin>>,
      <<"win", Windows>>, <<"lin", Linux>> }
ArchAliasTable ==
    { <<"x64", Amd64>>, <<"x86_64", Amd64>>, <<"amd64", Amd64>>, <<"64", Amd64>>,
      <<"64bit", Amd64>>,
      <<"x86", I386>>, <<"i386", I386>>, <<"386", I386>>, <<"32", I386>>,
      <<"32bit", I386>>,
      <<"arm64", Arm64>>, <<"aarch64", Arm64>> }

\* the characters of an alias of the tables
Spelled(word) ==
    CASE word = "mac" -> <<"m","a","c">>
      [] word = "macos" -> <<"m","a","c","o","s">>
      [] word = "osx" -> <<"o","s","x">>
      [] word = "win" -> <<"w","i","n">>
      [] word = "lin" -> <<"l","i","n">>
      [] word = "x64" -> <<"x","6","4">>
      [] word = "x86_64" -> <<"x","8","6","_","6","4">>
      [] word = "amd64" -> <<"a","m","d","6","4">>
      [] word = "64" -> <<"6","4">>
      [] word = "64bit" -> <<"6","4","b","i","t">>
      [] word = "x86" -> <<"x","8","6">>
      [] word = "i386" -> <<"i","3","8","6">>
      [] word = "386" -> <<"3","8","6">>
      [] word = "32" -> <<"3","2">>
      [] word = "32bit" -> <<"3","2","b","i","t">>
      [] word = "arm64" -> <<"a","r","m","6","4">>
      [] word = "aarch64" -> <<"a","a","r","c","h","6","4">>

\* a (possibly missing) text looked up in a table: missing or empty gives
\* the default, an alias in any letter case its canonical value, any other
\* text its lower-cased self
ReferenceCanonical(value, table, default) ==
    IF ~IsStr(value) \/ value.s = EmptyStr THEN default
    ELSE LET hits == {row \in table : Spelled(row[1]) = ToLower(value.s)}
         IN  IF hits = {} THEN ToLower(value.s)
             ELSE (CHOOSE row \in hits : TRUE)[2]

\* the OS value of a config: the key "OS" when it holds a text, else "os"
RequestedOS(configMap) == IF IsStr(configMap.OS) THEN configMap.OS ELSE configMap.os

ReferencePlatform(configMap) ==
    ReferenceCanonical(RequestedOS(configMap), OSAliasTable, Windows)
        \o <<"/">> \o ReferenceCanonical(configMap.arch, ArchAliasTable, Amd64)

\* C23: the platform the generate handler validates is the one the
\* reference mapping gives for the request's OS and architecture values
\* (OS aliases mac, macos, osx -> darwin, win -> windows, lin -> linux;
\* architecture aliases x64, x86_64, amd64, 64, 64bit -> amd64, x86, i386,
\* 386, 32, 32bit -> 386, arm64, aarch64 -> arm64; any other value
\* lower-cased; a missing or empty OS windows, a missing or empty
\* architecture amd64): it is the platform named by an unsupported-platform
\* rejection and the platform of every request that reaches the build.
C23_PlatformIsReference ==
    GenerateChecked =>
        LET reference == ReferencePlatform(req.arguments.config)
            rejected == IsFailure(result) /\ result.code = "unsupported platform"
        IN  /\ rejected => result.detail.platform = reference
            /\ rejected <=> reference \notin {p[1] \o <<"/">> \o p[2] : p \in SixPairs}
            /\ calls # <<>> => pending.platform = reference

\* "MacOS" with "Aarch64" reached the build as darwin/arm64
C23_Witness ==
    /\ GenerateChecked
    /\ req.arguments.config.OS = Str(<<"M","a","c","O","S">>)
    /\ req.arguments.config.arch = Str(<<"A","a","r","c","h","6","4">>)
    /\ calls # <<>>
    /\ pending.platform = <<"d","a","r","w","i","n","/","a","r","m","6","4">>

\* a request without OS and architecture reached the build as windows/amd64
C23_DefaultsReached ==
    /\ GenerateChecked
    /\ req.arguments.config.OS = Absent /\ req.arguments.config.os = Absent
    /\ req.arguments.config.arch = Absent
    /\ calls # <<>>
    /\ pending.platform = <<"w","i","n","d","o","w","s","/","a","m","d","6","4">>

\* a config that holds only the given OS and architecture texts
PlatformOnly(goos, goarch) ==
    Map(Str(goos), Absent, Str(goarch), Absent, Absent, Absent, Absent, Absent)

\* C24: canonicalizing the canonical OS and architecture of a request gives
\* them back unchanged, and the client's own normalization changes neither
\* the OS nor the architecture of a configuration the handler validated:
\* the platform sent to the build is the platform that was validated, one
\* of the six supported pairs.
C24_SecondNormalizationIsIdentity ==
    GenerateChecked =>
        LET goos == GenerateGOOS(req.arguments.config)
            goarch == GenerateGOARCH(req.arguments.config)
        IN  /\ GenerateGOOS(PlatformOnly(goos, goarch)) = goos
            /\ GenerateGOARCH(PlatformOnly(goos, goarch)) = goarch
            /\ \A config \in SentConfigs :
                  /\ config.GOOS = goos /\ config.GOARCH = goarch
                  /\ PlatformString(config.GOOS, config.GOARCH) = pending.platform
                  /\ <<config.GOOS, config.GOARCH>> \in SixPairs

\* a darwin/arm64 request given through aliases was sent as darwin/arm64
C24_Witness ==
    /\ GenerateChecked
    /\ req.arguments.config.OS = Str(<<"o","s","x">>)
    /\ req.arguments.config.arch = Str(<<"a","a","r","c","h","6","4">>)
    /\ \E config \in SentConfigs : config.GOOS = Darwin /\ config.GOARCH = Arm64

\* the requests being served: the running one and the one set aside
Running == [req |-> req, pc |-> pc, calls |-> calls, pending |-> pending, result |-> result]
Served == {Running} \cup (IF peer = NoPeer THEN {} ELSE {peer})

\* the build calls a request has issued
BuildCalls(r) == SelectSeq(r.calls, LAMBDA c : c.op = "Generate")

\* a generate request that passes the local checks whatever tool chain is
\* installed
PassesLocalChecks(r) ==
    /\ r.req.tool = "generate"
    /\ \A compilers \in SUBSET {MingwAmd64, MingwI386} :
          GenerateLocalError(r.req.arguments, compilers) = NoDetail

\* the directory a request asked for, if any
OwnOutputDir(r) ==
    IF IsStr(r.req.arguments.outputDir) /\ r.req.arguments.outputDir.s # EmptyStr
    THEN r.req.arguments.outputDir.s
    ELSE <<"i","m","p","l","a","n","t","s">>

\* C25: every generate request issues at most one build call, also after
\* the call failed; every request that passes the local checks and has
\* left the checks behind has issued exactly one, carrying its own name,
\* whatever another request served at the same time (with the same name)
\* has done, so two such requests make two calls.  The process-wide
\* default output directory keeps its initial value under every handler,
\* and the directory a request writes to is its own outputDir or that
\* default, never the outputDir of the other request.
C25_OneBuildCallPerRequest ==
    /\ OutputDir = <<"i","m","p","l","a","n","t","s">>
    /\ \A r \in Served :
          r.req.tool = "generate" =>
            /\ Len(BuildCalls(r)) <= 1
            /\ Len(r.calls) = Len(BuildCalls(r))
            /\ (PassesLocalChecks(r) /\ r.pc # "start") =>
                  /\ Len(BuildCalls(r)) = 1
                  /\ BuildCalls(r)[1].Config.Name = GenerateImplantName(r.req.arguments)
            /\ (r.pc = "done" /\ "dir" \in DOMAIN r.result) =>
                  r.result.dir = OwnOutputDir(r)
            /\ (r.pc = "done" /\ IsFailure(r.result) /\ r.result.detail # NoDetail
                    /\ "dir" \in DOMAIN r.result.detail) =>
                  r.result.detail.dir = OwnOutputDir(r)

\* two requests with the same name have both finished, one after a failed
\* build call and one with its own outputDir, the other in the default
\* directory, and each has made its one call
C25_Witness ==
    /\ peer # NoPeer
    /\ pc = "done" /\ peer.pc = "done"
    /\ Len(BuildCalls(Running)) = 1 /\ Len(BuildCalls(peer)) = 1
    /\ BuildCalls(Running)[1].Config.Name = BuildCalls(peer)[1].Config.Name
    /\ pending.answer.err
    /\ IsStr(req.arguments.outputDir) /\ ~IsStr(peer.req.arguments.outputDir)
    /\ "dir" \in DOMAIN peer.result
    /\ peer.result.dir = <<"i","m","p","l","a","n","t","s">>

\* the request names nothing: no name, a name that is not a text, or ""
NameMissing == ~IsStr(req.arguments.name) \/ req.arguments.name.s = EmptyStr

\* the request was rejected for its name
RejectedForName ==
    IsFailure(result) /\ result.code = "name must be a non-empty string"

\* the names of the configurations handed to the collaborator, by a build
\* call or inside a profile
ComposedNames ==
    {calls[i].Config.Name : i \in {j \in 1..Len(calls) : calls[j].op = "Generate"}}
    \cup {calls[i].Profile.Config.Name :
            i \in {j \in 1..Len(calls) : calls[j].op = "SaveImplantProfile"}}

\* C26 as stated: in the generate flow and in the save-profile flow a
\* request without a name (or with an empty one) is not rejected for that,
\* and the configuration it composes is named "generated-implant".
C26_PlaceholderInEveryFlow ==
    (req.tool \in {"generate", "save_profile"} /\ NameMissing /\ pc # "start") =>
        /\ ~RejectedForName
        /\ ComposedNames \subseteq {DefaultImplantName}

\* C26, amended: in the generate flow a request without a name (or with an
\* empty one) is not rejected for that, and the configuration it hands to
\* the build is named "generated-implant"; in the save-profile flow such a
\* request is rejected as invalid arguments ("name must be a non-empty
\* string") before any call.
C26_PlaceholderInGenerateOnly ==
    (req.tool \in {"generate", "save_profile"} /\ NameMissing /\ pc # "start") =>
        /\ req.tool = "generate" =>
              /\ ~RejectedForName
              /\ ComposedNames \subseteq {DefaultImplantName}
              /\ PassesLocalChecks(Running) => ComposedNames = {DefaultImplantName}
              /\ (pc = "done" /\ "name" \in DOMAIN result) => result.name = DefaultImplantName
        /\ req.tool = "save_profile" =>
              /\ pc = "done"
              /\ RejectedForName /\ result.kind = "InvalidArgs"
              /\ calls = <<>>

\* a generate request with the name "" has been built under the placeholder
\* name
C26_Witness ==
    /\ req.tool = "generate"
    /\ req.arguments.name = Str(EmptyStr)
    /\ pc = "done"
    /\ ComposedNames = {DefaultImplantName}
    /\ "name" \in DOMAIN result /\ result.name = DefaultImplantName

\* a save-profile request with a valid config and no name has been rejected
C26_ProfileRejected ==
    /\ req.tool = "save_profile"
    /\ req.arguments.name = Absent /\ IsMap(req.arguments.config)
    /\ RejectedForName

\* C27: in every execute request that reaches the client's lookup, the OS
\* class the handler keeps for the output handling equals the OS class the
\* client chose the shell chain by, whatever the session list did between
\* the two lookups.
C27_OneClassPerRequest ==
    (req.tool = "execute" /\ pending # Nothing /\ "clientWindows" \in DOMAIN pending) =>
        pending.isWindows = pending.clientWindows

\* the later shapes of a config whose mtlsc2 is an empty list: no non-empty
\* c2 list before it, and behind it either one valid httpsc2 host (httpc2
\* absent or empty) or a valid c2 string (httpc2 and httpsc2 absent or empty)
LaterShapeEndpoints(configMap) ==
    IF configMap.httpsc2 = Lst(<<Str(HostSlash)>>)
    THEN <<ImplantC2(0, HttpsPrefix \o HostSlash)>>
    ELSE <<ImplantC2(0, UrlMtlsA)>>

EmptyMtlsListBeforeValidShape(configMap) ==
    /\ configMap.mtlsc2 = Lst(<<>>)
    /\ ~(IsLst(configMap.c2) /\ Len(configMap.c2.l) > 0)
    /\ configMap.httpc2 \in {Absent, Lst(<<>>)}
    /\ \/ configMap.httpsc2 = Lst(<<Str(HostSlash)>>)
       \/ configMap.httpsc2 \in {Absent, Lst(<<>>)} /\ configMap.c2 = Str(UrlMtlsA)

\* C28: a generate request on a supported platform whose mtlsc2 is an empty
\* list and whose httpsc2 list or c2 string supplies a valid endpoint is
\* accepted: it reaches the build with the endpoints of that later shape.
C28_EmptyMtlsListFallsThrough ==
    ( /\ GenerateChecked /\ PairSupported
      /\ GenerateGOOS(req.arguments.config) # Windows
      /\ EmptyMtlsListBeforeValidShape(req.arguments.config) ) =>
        /\ ~(IsFailure(result) /\ result.kind = "InvalidArgs")
        /\ \E config \in SentConfigs : config.C2 = LaterShapeEndpoints(req.arguments.config)

\* C29: a successful execute on a session the handler classified as windows
\* never returns the output header with an empty text; when the captured
\* output is empty after normalization the no-output message is returned.
C29_NoEmptyWindowsPayload ==
    (ReturnedOutput /\ pending.isWindows) =>
        IF ReferenceNormalize(CapturedOutput) = EmptyStr
        THEN result.message = "no output (Windows)"
        ELSE result.message = "Output from Windows command" /\ result.text # EmptyStr

\* the characters of a text that normalization may not touch
Untouchable(text) == SelectSeq(text, LAMBDA c : c # NUL /\ c # CR /\ ~IsSpace(c))

\* C30: the output text returned for a windows session holds, unchanged and
\* in order, every character of the captured output that is not a NUL, a
\* carriage return or white space, the characters of a literal "##CRLF##"
\* included.
C30_OnlyLineEndsChange ==
    WindowsOutputReturned => Untouchable(result.text) = Untouchable(CapturedOutput)

====
